---- MODULE Spec2Model ----
(***************************************************************************)
(* Model of abtem/base_classes.py: Event, watched_method,                  *)
(* cache_clear_callback, cached_method, Cache, Grid, Accelerator and the   *)
(* delegating mixins; of subdivide_into_batches in abtem/utils/utils.py;   *)
(* and of the context manager `set` in abtem/core/config.py.               *)
(*                                                                         *)
(* Numbers: Python floats are modelled as exact rationals <<n, d>> in      *)
(* lowest terms with d > 0; Python ints are integers.  An Optional value   *)
(* is a sequence: None is the empty sequence, a grid tuple is a sequence   *)
(* of length `dimensions`.                                                 *)
(***************************************************************************)
EXTENDS Integers, Sequences, FiniteSets, TLC

VARIABLES
    grid,       \* grid[i]: the Grid object i, its fields
    accel,      \* accel[i]: the Accelerator object i, its fields
    changed,    \* changed[i]: the Event `changed` of Grid or Accelerator i
    cache,      \* cache[c]: the Cache object c
    scen,       \* history: progress of a run of consecutive memoized calls
    owner,      \* owner[o]: the Grid and the Accelerator that object o holds
    batches,    \* a call of subdivide_into_batches: its arguments, then its outcome
    config,     \* the configuration dict handed to config.set
    sets,       \* the config.set objects whose with-block is open, innermost last
    tally,      \* history: the memoized calls made since a cache was last cleared
    last        \* history: the last operation, its arguments and its outcome

vars == <<grid, accel, changed, cache, owner, batches, config, sets, scen, tally, last>>

-----------------------------------------------------------------------------
(* Bounds of the model *)

\* largest numerator of a float handed to a constructor or setter
MaxNum == 2
\* largest denominator of a float handed to a constructor or setter
MaxDen == 2
\* largest `dimensions` of a Grid
MaxDim == 1
\* cap on Event._notify_count
MaxNotify == 2
\* largest argument of a memoized call
MaxArg == 1
\* largest Cache max_size
MaxSize == 2
\* cap on Cache._hits and Cache._misses
MaxCount == 2
\* cap on Cache._misses where an evicted key is asked for again
MaxMisses == 3

\* cap on the number of callbacks registered on one event
MaxCallbacks == 1
\* cap on the number of callbacks on an event that takes lists of callbacks
MaxListed == 3
\* largest num_items, num_batches and max_batch of subdivide_into_batches
MaxItems == 7
\* largest n of snap_to_power
MaxPower == 3
\* largest number of with-blocks of config.set open at a time
MaxNest == 2
\* largest number of keys in one mapping handed to config.set
MaxEntries == 2
\* largest number of keys in the mappings of the open with-blocks together
MaxOpenEntries == 2

-----------------------------------------------------------------------------
(* Python values *)

None == << >>

NoError == "none"

Abs(a) == IF a < 0 THEN -a ELSE a

RECURSIVE GCD(_, _)
GCD(a, b) == IF b = 0 THEN a ELSE GCD(b, a % b)

\* the float n / d (d # 0), in lowest terms with a positive denominator
Rat(n, d) ==
    LET g == GCD(Abs(n), Abs(d))
        s == IF d < 0 THEN -1 ELSE 1
    IN  <<(s * n) \div g, (s * d) \div g>>

\* float(k) of an int k
FromInt(k) == <<k, 1>>

\* n * d of an int n and a float d
IntTimes(n, d) == Rat(n * d[1], d[2])

IsZero(r) == r[1] = 0

\* l / d of two floats, d # 0
Divide(l, d) == Rat(l[1] * d[2], l[2] * d[1])

\* int(np.ceil(r))
Ceil(r) == -((-r[1]) \div r[2])

\* int(r): truncation toward zero
ToInt(r) == IF r[1] >= 0 THEN r[1] \div r[2] ELSE -((-r[1]) \div r[2])

\* the floats a caller passes
Floats == {Rat(n, d) : n \in 0..MaxNum, d \in 1..MaxDen}

\* the arguments a caller passes for extent, gpts or sampling: None, a number,
\* a sequence of numbers, or an object of another type
Scalars == {[kind |-> "scalar", v |-> <<r>>] : r \in Floats}

\* sequences of one or two whole numbers
Sequences_ ==
    {[kind |-> "seq", v |-> s] : s \in UNION {[1..n -> {FromInt(k) : k \in 1..MaxNum}] : n \in 1..2}}

NoneValue == [kind |-> "none", v |-> None]

OtherValue == [kind |-> "other", v |-> None]

Values == Scalars \cup Sequences_ \cup {NoneValue, OtherValue}

GridIds == {"A", "B"}

AccelIds == {"P", "Q"}

\* the objects that own an Event `changed`
EventIds == GridIds \cup AccelIds

\* "c1" is the cache of the receiver of the memoized calls, "c2" another cache
CacheIds == {"c1", "c2"}
\* the objects that hold a Grid and an Accelerator
OwnerIds == {"r1", "r2"}

-----------------------------------------------------------------------------
(* Cache and cached_method *)

Args == 0..MaxArg

\* the keys cached_method builds, (func,) + args[1:], for the memoized methods
\* f(self, x) and g(self)
Keys == {<<"f", x>> : x \in Args} \cup {<<"g">>}

CachedKeys(c) == [k \in 1..Len(c.cached) |-> c.cached[k].key]

Contains(c, key) == \E k \in 1..Len(c.cached) : c.cached[k].key = key

\* Cache.__len__
CacheLen(c) == Len(c.cached)

\* Cache.hits
CacheHits(c) == c.hits

\* Cache.misses
CacheMisses(c) == c.hits

\* Cache._check_size testing `if self._max_size:`, so that 0 counts as no bound
RECURSIVE CheckSizeTruthy(_)
CheckSizeTruthy(c) ==
    IF c.max_size # None /\ c.max_size # <<0>> /\ Len(c.cached) > c.max_size[1]
    THEN CheckSizeTruthy([c EXCEPT !.cached = Tail(@)])
    ELSE c

\* Cache._check_size
RECURSIVE CheckSize(_)
CheckSize(c) ==
    IF c.max_size # None /\ CacheLen(c) > c.max_size[1]
    THEN CheckSize([c EXCEPT !.cached = Tail(@)])
    ELSE c

\* a mapping that moves a present key to the end when it is set again
SetItemMoveToEnd(cached, key, value) ==
    Append(SelectSeq(cached, LAMBDA e : e.key # key), [key |-> key, value |-> value])

\* OrderedDict.__setitem__: a present key keeps its place, a new key goes last
SetItem(cached, key, value) ==
    IF \E k \in 1..Len(cached) : cached[k].key = key
    THEN [k \in 1..Len(cached) |->
            IF cached[k].key = key THEN [key |-> key, value |-> value] ELSE cached[k]]
    ELSE Append(cached, [key |-> key, value |-> value])

\* Cache.insert
CacheInsert(c, key, value) == CheckSize([c EXCEPT !.cached = SetItem(@, key, value)])

\* Cache.retrieve returning the oldest entry, whatever the key
CacheRetrieveOldest(c, key) == c.cached[1].value

\* Cache.retrieve of a present key
CacheRetrieve(c, key) ==
    LET k == CHOOSE k \in 1..Len(c.cached) : c.cached[k].key = key
    IN  c.cached[k].value

\* the operation behind a memoized method, run on a receiver: f(self, x) reads
\* the receiver's grid, g(self) reads the receiver's accelerator (None while
\* there is none)
FuncOf(w, receiver, func, args) ==
    IF func = "f" THEN args \o w.grid[w.owner[receiver].grid].gpts
    ELSE <<0>> \o w.accel[w.owner[receiver].accelerator].energy

\* the operation behind a memoized method of the receiver "r1", which owns
\* grid "A" and accelerator "P"
Func(w, func, args) == FuncOf(w, "r1", func, args)

\* cached_method that does not store what it computed
CachedMethodNoInsert(w, c, func, args) ==
    LET key == <<func>> \o args IN
    IF Contains(w.cache[c], key)
    THEN [w EXCEPT !.result = CacheRetrieve(w.cache[c], key),
                   !.cache[c].hits = @ + 1]
    ELSE [w EXCEPT !.invoked = @ + 1, !.result = Func(w, func, args),
                   !.cache[c].misses = @ + 1]

\* cached_method with the receiver made a part of the key
CachedMethodPerReceiver(w, receiver, c, func, args) ==
    LET key == <<func, receiver>> \o args IN
    IF Contains(w.cache[c], key)
    THEN [w EXCEPT !.result = CacheRetrieve(w.cache[c], key),
                   !.cache[c].hits = @ + 1]
    ELSE LET result == FuncOf(w, receiver, func, args)
             w1 == [w EXCEPT !.invoked = @ + 1,
                             !.cache[c] = CacheInsert(@, key, result)]
         IN  [w1 EXCEPT !.result = result, !.cache[c].misses = @ + 1]

\* cached_method: new_func(receiver, *args), c the cache that the receiver's
\* target_cache_property returns; the key is (func,) + args[1:]
CachedMethodOf(w, receiver, c, func, args) ==
    LET key == <<func>> \o args IN
    IF Contains(w.cache[c], key)
    THEN [w EXCEPT !.result = CacheRetrieve(w.cache[c], key),
                   !.cache[c].hits = @ + 1]
    ELSE LET result == FuncOf(w, receiver, func, args)
             w1 == [w EXCEPT !.invoked = @ + 1,
                             !.cache[c] = CacheInsert(@, key, result)]
         IN  [w1 EXCEPT !.result = result, !.cache[c].misses = @ + 1]

\* cached_method: new_func(receiver, *args) on the cache c of receiver "r1"
CachedMethod(w, c, func, args) == CachedMethodOf(w, "r1", c, func, args)

-----------------------------------------------------------------------------
(* Event *)

\* Event.__init__
NewEvent == [callbacks |-> << >>, notify_count |-> 0]

\* Cache.__init__
NewCache(max_size) == [max_size |-> max_size, cached |-> << >>, hits |-> 0, misses |-> 0]

\* a clear that empties the dict and keeps the counters
CacheClearEntries(c) == [c EXCEPT !.cached = << >>]

\* Cache.clear
CacheClear(c) == [c EXCEPT !.cached = << >>, !.hits = 0, !.misses = 0]

\* cache_clear_callback without the test of `change`
CacheClearCallbackAlways(w, target_cache, change) ==
    [w EXCEPT !.cache[target_cache] = CacheClear(@), !.cleared = @ \cup {target_cache}]

\* cache_clear_callback with the test of `change` inverted
CacheClearCallbackInverted(w, target_cache, change) ==
    IF ~change
    THEN [w EXCEPT !.cache[target_cache] = CacheClear(@), !.cleared = @ \cup {target_cache}]
    ELSE w

\* the callback made by cache_clear_callback(target_cache), run in world w
CacheClearCallback(w, target_cache, change) ==
    IF change
    THEN [w EXCEPT !.cache[target_cache] = CacheClear(@), !.cleared = @ \cup {target_cache}]
    ELSE w

\* the memoized call a callback makes on the receiver: receiver.f(0)
ReaderKey == <<"f", 0>>

\* a callback that calls the memoized method f of the receiver, whose cache is
\* c: the result of the operation lists what each such callback received,
\* whether it came from the cache, and whether the cache had been cleared
\* before in the same operation
ReaderCallback(w, c) ==
    LET w1 == CachedMethod(w, c, Head(ReaderKey), Tail(ReaderKey))
    IN  [w1 EXCEPT !.result = Append(w.result, [value |-> w1.result,
                                                hit |-> w1.invoked = w.invoked,
                                                cleared |-> c \in w.cleared])]

\* one callback called by Event.notify: the callback of a cache, a callback
\* that raises, a callback that calls a memoized method, or a callback that
\* leaves the objects alone
RunCallback(w, cb, change) ==
    LET w1 == [w EXCEPT !.called = Append(@, cb)]
    IN  IF cb.kind = "cache_clear" THEN CacheClearCallback(w1, cb.target, change)
        ELSE IF cb.kind = "raise" THEN [w1 EXCEPT !.raised = "CallbackError"]
        ELSE IF cb.kind = "call" THEN ReaderCallback(w1, cb.target)
        ELSE w1

\* the loop of Event.notify going on after a callback raised
RECURSIVE RunCallbacksAll(_, _, _)
RunCallbacksAll(w, cbs, change) ==
    IF cbs = << >> THEN w
    ELSE RunCallbacksAll(RunCallback(w, Head(cbs), change), Tail(cbs), change)

\* the loop of Event.notify: an exception of a callback ends it
RECURSIVE RunCallbacks(_, _, _)
RunCallbacks(w, cbs, change) ==
    IF cbs = << >> \/ w.raised # NoError THEN w
    ELSE RunCallbacks(RunCallback(w, Head(cbs), change), Tail(cbs), change)

\* Event.notify counting only the notifications of a change
NotifyWhenChanged(w, i, change) ==
    RunCallbacks([w EXCEPT !.changed[i].notify_count = @ + (IF change THEN 1 ELSE 0)],
                 w.changed[i].callbacks, change)

\* Event.notify with the count kept inside the loop over the callbacks
NotifyPerCallback(w, i, change) ==
    RunCallbacks([w EXCEPT !.changed[i].notify_count = @ + Len(w.changed[i].callbacks)],
                 w.changed[i].callbacks, change)

\* Event.notify of grid i's `changed` event
Notify(w, i, change) ==
    RunCallbacks([w EXCEPT !.changed[i].notify_count = @ + 1],
                 w.changed[i].callbacks, change)

-----------------------------------------------------------------------------
(* Grid *)

Raise(w, e) == [w EXCEPT !.raised = e]

\* Grid._validate: the tuple stored for a value, or None
\* the test of _validate without the comparison of the length with `dimensions`
ValidateRaisesOther(dimensions, value) == value.kind = "other"

ValidateRaises(dimensions, value) ==
    \/ value.kind = "seq" /\ Len(value.v) # dimensions
    \/ value.kind = "other"

Convert(r, dtype) == IF dtype = "int" THEN ToInt(r) ELSE r

Validate(dimensions, value, dtype) ==
    CASE value.kind = "seq" -> [k \in 1..Len(value.v) |-> Convert(value.v[k], dtype)]
      [] value.kind = "scalar" -> [k \in 1..dimensions |-> Convert(value.v[1], dtype)]
      [] OTHER -> None

\* Grid._adjust_extent without the endpoint case
AdjustExtentNoEndpoint(w, i, gpts, sampling) ==
    IF gpts # None /\ sampling # None
    THEN LET m == IF Len(gpts) < Len(sampling) THEN Len(gpts) ELSE Len(sampling)
         IN  [w EXCEPT !.grid[i].extent = [k \in 1..m |-> IntTimes(gpts[k], sampling[k])]]
    ELSE w

\* Grid._adjust_extent
AdjustExtent(w, i, gpts, sampling) ==
    IF gpts # None /\ sampling # None
    THEN LET m == IF Len(gpts) < Len(sampling) THEN Len(gpts) ELSE Len(sampling)
         IN  IF w.grid[i].endpoint
             THEN [w EXCEPT !.grid[i].extent = [k \in 1..m |-> IntTimes(gpts[k] - 1, sampling[k])]]
             ELSE [w EXCEPT !.grid[i].extent = [k \in 1..m |-> IntTimes(gpts[k], sampling[k])]]
    ELSE w

\* Grid._adjust_gpts without the endpoint case
AdjustGptsNoEndpoint(w, i, extent, sampling) ==
    IF extent # None /\ sampling # None
    THEN LET m == IF Len(extent) < Len(sampling) THEN Len(extent) ELSE Len(sampling)
         IN  IF \E k \in 1..m : IsZero(sampling[k])
             THEN Raise(w, "ZeroDivisionError")
             ELSE [w EXCEPT !.grid[i].gpts = [k \in 1..m |-> Ceil(Divide(extent[k], sampling[k]))]]
    ELSE w

\* Grid._adjust_gpts
AdjustGpts(w, i, extent, sampling) ==
    IF extent # None /\ sampling # None
    THEN LET m == IF Len(extent) < Len(sampling) THEN Len(extent) ELSE Len(sampling)
         IN  IF \E k \in 1..m : IsZero(sampling[k])
             THEN Raise(w, "ZeroDivisionError")
             ELSE IF w.grid[i].endpoint
             THEN [w EXCEPT !.grid[i].gpts = [k \in 1..m |-> Ceil(Divide(extent[k], sampling[k])) + 1]]
             ELSE [w EXCEPT !.grid[i].gpts = [k \in 1..m |-> Ceil(Divide(extent[k], sampling[k]))]]
    ELSE w

\* Grid._adjust_sampling without the endpoint case
AdjustSamplingNoEndpoint(w, i, extent, gpts) ==
    IF extent # None /\ gpts # None
    THEN LET m == IF Len(extent) < Len(gpts) THEN Len(extent) ELSE Len(gpts)
         IN  IF \E k \in 1..m : gpts[k] = 0
             THEN Raise(w, "ZeroDivisionError")
             ELSE [w EXCEPT !.grid[i].sampling =
                       [k \in 1..m |-> Divide(extent[k], FromInt(gpts[k]))]]
    ELSE w

\* Grid._adjust_sampling
AdjustSampling(w, i, extent, gpts) ==
    IF extent # None /\ gpts # None
    THEN LET m == IF Len(extent) < Len(gpts) THEN Len(extent) ELSE Len(gpts)
         IN  IF w.grid[i].endpoint
             THEN IF \E k \in 1..m : gpts[k] - 1 = 0
                  THEN Raise(w, "ZeroDivisionError")
                  ELSE [w EXCEPT !.grid[i].sampling =
                            [k \in 1..m |-> Divide(extent[k], FromInt(gpts[k] - 1))]]
             ELSE IF \E k \in 1..m : gpts[k] = 0
                  THEN Raise(w, "ZeroDivisionError")
                  ELSE [w EXCEPT !.grid[i].sampling =
                            [k \in 1..m |-> Divide(extent[k], FromInt(gpts[k]))]]
    ELSE w

OK(w) == w.raised = NoError

\* a tuple handed on as an argument (match passes the other grid's tuple)
AsValue(t) == IF t = None THEN NoneValue ELSE [kind |-> "seq", v |-> t]

AsFloats(t) == [k \in 1..Len(t) |-> FromInt(t[k])]

\* the grid slot before `Grid(...)` has run
NoGrid ==
    [alive |-> FALSE, extent |-> None, gpts |-> None, sampling |-> None,
     dimensions |-> 1, endpoint |-> FALSE,
     lock_extent |-> FALSE, lock_gpts |-> FALSE, lock_sampling |-> FALSE]

B2N(b) == IF b THEN 1 ELSE 0

\* Grid.__init__
GridInit(w, i, extent, gpts, sampling, dimensions, endpoint, lock_extent, lock_gpts, lock_sampling) ==
    IF B2N(lock_extent) + B2N(lock_gpts) + B2N(lock_sampling) > 1
    THEN Raise(w, "RuntimeError")
    ELSE IF \/ ValidateRaises(dimensions, extent)
            \/ ValidateRaises(dimensions, gpts)
            \/ ValidateRaises(dimensions, sampling)
    THEN Raise(w, "RuntimeError")
    ELSE
    LET w0 == [w EXCEPT !.changed[i] = NewEvent,
                        !.grid[i] = [alive |-> TRUE,
                                     extent |-> Validate(dimensions, extent, "float"),
                                     gpts |-> Validate(dimensions, gpts, "int"),
                                     sampling |-> Validate(dimensions, sampling, "float"),
                                     dimensions |-> dimensions, endpoint |-> endpoint,
                                     lock_extent |-> lock_extent, lock_gpts |-> lock_gpts,
                                     lock_sampling |-> lock_sampling]]
        w1 == IF w0.grid[i].extent = None
              THEN AdjustExtent(w0, i, w0.grid[i].gpts, w0.grid[i].sampling)
              ELSE w0
        w2 == IF w1.grid[i].gpts = None
              THEN AdjustGpts(w1, i, w1.grid[i].extent, w1.grid[i].sampling)
              ELSE w1
        w3 == IF OK(w2) THEN AdjustSampling(w2, i, w2.grid[i].extent, w2.grid[i].gpts) ELSE w2
    IN  IF OK(w3) THEN w3 ELSE Raise(w, w3.raised)

\* Grid.extent setter that re-derives gpts whenever it can
ExtentFuncRederivesGpts(w, i, value) ==
    LET g == w.grid[i] IN
    IF g.lock_extent THEN Raise(w, "RuntimeError")
    ELSE IF ValidateRaises(g.dimensions, value) THEN Raise(w, "RuntimeError")
    ELSE
    LET extent == Validate(g.dimensions, value, "float")
        w1 == AdjustGpts(w, i, extent, g.sampling)
        w2 == IF OK(w1) THEN AdjustSampling(w1, i, extent, w1.grid[i].gpts) ELSE w1
    IN  IF OK(w2) THEN [w2 EXCEPT !.grid[i].extent = extent] ELSE w2

\* Grid.extent setter, the decorated function
ExtentFunc(w, i, value) ==
    LET g == w.grid[i] IN
    IF g.lock_extent THEN Raise(w, "RuntimeError")
    ELSE IF ValidateRaises(g.dimensions, value) THEN Raise(w, "RuntimeError")
    ELSE
    LET extent == Validate(g.dimensions, value, "float") IN
    IF g.lock_sampling \/ g.gpts = None
    THEN LET w1 == AdjustGpts(w, i, extent, g.sampling)
             w2 == IF OK(w1) THEN AdjustSampling(w1, i, extent, w1.grid[i].gpts) ELSE w1
         IN  IF OK(w2) THEN [w2 EXCEPT !.grid[i].extent = extent] ELSE w2
    ELSE LET w1 == AdjustSampling(w, i, extent, g.gpts)
         IN  IF OK(w1) THEN [w1 EXCEPT !.grid[i].extent = extent] ELSE w1

\* Grid.gpts setter, the decorated function
GptsFunc(w, i, value) ==
    LET g == w.grid[i] IN
    IF g.lock_gpts THEN Raise(w, "RuntimeError")
    ELSE IF ValidateRaises(g.dimensions, value) THEN Raise(w, "RuntimeError")
    ELSE
    LET gpts == Validate(g.dimensions, value, "int")
        w1 == IF g.lock_sampling THEN AdjustExtent(w, i, gpts, g.sampling)
              ELSE IF g.extent # None THEN AdjustSampling(w, i, g.extent, gpts)
              ELSE AdjustExtent(w, i, gpts, g.sampling)
    IN  IF OK(w1) THEN [w1 EXCEPT !.grid[i].gpts = gpts] ELSE w1

\* Grid.sampling setter without the test of the lock
SamplingFuncNoLock(w, i, value) ==
    LET g == w.grid[i] IN
    IF ValidateRaises(g.dimensions, value) THEN Raise(w, "RuntimeError")
    ELSE
    LET sampling == Validate(g.dimensions, value, "float")
        w1 == IF g.lock_gpts THEN AdjustExtent(w, i, g.gpts, sampling)
              ELSE IF g.extent # None THEN AdjustGpts(w, i, g.extent, sampling)
              ELSE AdjustExtent(w, i, g.gpts, sampling)
    IN  IF OK(w1) THEN AdjustSampling(w1, i, w1.grid[i].extent, w1.grid[i].gpts) ELSE w1

\* Grid.sampling setter, the decorated function
SamplingFunc(w, i, value) ==
    LET g == w.grid[i] IN
    IF g.lock_sampling THEN Raise(w, "RuntimeError")
    ELSE IF ValidateRaises(g.dimensions, value) THEN Raise(w, "RuntimeError")
    ELSE
    LET sampling == Validate(g.dimensions, value, "float")
        w1 == IF g.lock_gpts THEN AdjustExtent(w, i, g.gpts, sampling)
              ELSE IF g.extent # None THEN AdjustGpts(w, i, g.extent, sampling)
              ELSE AdjustExtent(w, i, g.gpts, sampling)
    IN  IF OK(w1) THEN AdjustSampling(w1, i, w1.grid[i].extent, w1.grid[i].gpts) ELSE w1

\* watched_method notifying with change = False
WatchedUnchanged(w, i) == IF OK(w) THEN Notify(w, i, FALSE) ELSE w

\* watched_method('changed'): run the function, then notify with change = True
Watched(w, i) == IF OK(w) THEN Notify(w, i, TRUE) ELSE w

SetExtent(w, i, value) == Watched(ExtentFunc(w, i, value), i)

\* the gpts setter without the watched_method decorator
SetGptsUnwatched(w, i, value) == GptsFunc(w, i, value)

SetGpts(w, i, value) == Watched(GptsFunc(w, i, value), i)

SetSampling(w, i, value) == Watched(SamplingFunc(w, i, value), i)

\* Grid.check_match that compares the extents only
CheckMatchExtentOnly(w, a, b) ==
    LET self == w.grid[a]
        other == w.grid[b]
    IN  IF self.extent # None /\ other.extent # None /\ self.extent # other.extent
        THEN Raise(w, "RuntimeError")
        ELSE w

\* Grid.check_match
CheckMatch(w, a, b) ==
    LET self == w.grid[a]
        other == w.grid[b]
    IN  IF self.extent # None /\ other.extent # None /\ self.extent # other.extent
        THEN Raise(w, "RuntimeError")
        ELSE IF self.gpts # None /\ other.gpts # None /\ self.gpts # other.gpts
        THEN Raise(w, "RuntimeError")
        ELSE w

\* the extent branch of Grid.match with the other grid adopting this one's value
MatchExtentSelfWins(w, a, b) ==
    LET self == w.grid[a]
        other == w.grid[b]
    IN  IF self.extent = None /\ other.extent = None THEN Raise(w, "RuntimeError")
        ELSE IF self.extent = None THEN SetExtent(w, a, AsValue(other.extent))
        ELSE IF self.extent # other.extent THEN SetExtent(w, b, AsValue(self.extent))
        ELSE w

\* Grid.match, the branch on extent
MatchExtent(w, a, b) ==
    LET self == w.grid[a]
        other == w.grid[b]
    IN  IF self.extent = None /\ other.extent = None THEN Raise(w, "RuntimeError")
        ELSE IF other.extent = None THEN SetExtent(w, b, AsValue(self.extent))
        ELSE IF self.extent # other.extent THEN SetExtent(w, a, AsValue(other.extent))
        ELSE w

\* the gpts branch of Grid.match without the error for two undefined gpts
MatchGptsNoError(w, a, b) ==
    LET self == w.grid[a]
        other == w.grid[b]
    IN  IF other.gpts = None THEN SetGpts(w, b, AsValue(AsFloats(self.gpts)))
        ELSE IF self.gpts # other.gpts THEN SetGpts(w, a, AsValue(AsFloats(other.gpts)))
        ELSE w

\* Grid.match, the branch on gpts
MatchGpts(w, a, b) ==
    LET self == w.grid[a]
        other == w.grid[b]
    IN  IF self.gpts = None /\ other.gpts = None THEN Raise(w, "RuntimeError")
        ELSE IF other.gpts = None THEN SetGpts(w, b, AsValue(AsFloats(self.gpts)))
        ELSE IF self.gpts # other.gpts THEN SetGpts(w, a, AsValue(AsFloats(other.gpts)))
        ELSE w

\* Grid.match
Match(w, a, b, check_match) ==
    LET w1 == IF check_match THEN CheckMatch(w, a, b) ELSE w
        w2 == IF OK(w1) THEN MatchExtent(w1, a, b) ELSE w1
    IN  IF OK(w2) THEN MatchGpts(w2, a, b) ELSE w2

\* np.log(x) / np.log(y) for ints x = y >= 2: the quotient of a float by itself
LogQuotient(x, y) == FromInt(1)

\* n ** np.ceil(np.log(n) / np.log(n)) with n bound by `for n in self.gpts`:
\* inside the generator n is the component of gpts, not the argument of
\* snap_to_power.  For the component 1 the quotient is 0/0 = nan and 1 ** nan
\* is 1.
SnappedComponent(n) == IF n = 1 THEN 1 ELSE n ^ Ceil(LogQuotient(n, n))

\* Grid.snap_to_power(n): iterating over gpts None is a TypeError; a component
\* below 1 gives nan, which the setter of an unlocked gpts cannot turn into an int
SnapToPower(w, i, n) ==
    LET g == w.grid[i] IN
    IF g.gpts = None THEN Raise(w, "TypeError")
    ELSE IF ~g.lock_gpts /\ (\E k \in 1..Len(g.gpts) : g.gpts[k] < 1)
    THEN Raise(w, "ValueError")
    ELSE SetGpts(w, i, [kind |-> "seq",
                        v |-> [k \in 1..Len(g.gpts) |->
                                  IF g.gpts[k] < 1 THEN FromInt(0)
                                  ELSE FromInt(SnappedComponent(g.gpts[k]))]])

-----------------------------------------------------------------------------
(* Accelerator *)

\* the accelerator slot before `Accelerator(...)` has run; an energy is None or
\* the one-element sequence of a float
NoAccel == [alive |-> FALSE, energy |-> None, lock_energy |-> FALSE]

\* float(value) raises TypeError for a value that is no number
FloatRaises(value) == value.kind \in {"seq", "other"}

\* an energy handed on as an argument (match passes the other's energy)
AsEnergy(e) == IF e = None THEN NoneValue ELSE [kind |-> "scalar", v |-> e]

\* Accelerator.__init__
AcceleratorInit(w, i, energy, lock_energy) ==
    IF FloatRaises(energy)
    THEN Raise(w, "TypeError")
    ELSE [w EXCEPT !.changed[i] = NewEvent,
                   !.accel[i] = [alive |-> TRUE, energy |-> energy.v,
                                 lock_energy |-> lock_energy]]

\* Accelerator.energy setter, the decorated function
EnergyFunc(w, i, value) ==
    IF w.accel[i].lock_energy THEN Raise(w, "RuntimeError")
    ELSE IF FloatRaises(value) THEN Raise(w, "TypeError")
    ELSE [w EXCEPT !.accel[i].energy = value.v]

SetEnergy(w, i, value) == Watched(EnergyFunc(w, i, value), i)

\* Accelerator.check_match
AcceleratorCheckMatch(w, a, b) ==
    LET self == w.accel[a]
        other == w.accel[b]
    IN  IF self.energy # None /\ other.energy # None /\ self.energy # other.energy
        THEN Raise(w, "RuntimeError")
        ELSE w

\* Accelerator.match that never calls check_match
AcceleratorMatchUnchecked(w, a, b, check_match) ==
    LET self == w.accel[a]
        other == w.accel[b]
    IN  IF self.energy = None /\ other.energy = None THEN Raise(w, "RuntimeError")
        ELSE IF other.energy = None THEN SetEnergy(w, b, AsEnergy(self.energy))
        ELSE SetEnergy(w, a, AsEnergy(other.energy))

\* Accelerator.match with the two sides of the last branch exchanged
AcceleratorMatchSelfWins(w, a, b, check_match) ==
    LET w1 == IF check_match THEN AcceleratorCheckMatch(w, a, b) ELSE w
        self == w1.accel[a]
        other == w1.accel[b]
    IN  IF ~OK(w1) THEN w1
        ELSE IF self.energy = None /\ other.energy = None THEN Raise(w1, "RuntimeError")
        ELSE IF self.energy # None THEN SetEnergy(w1, b, AsEnergy(self.energy))
        ELSE SetEnergy(w1, a, AsEnergy(other.energy))

\* Accelerator.match
AcceleratorMatch(w, a, b, check_match) ==
    LET w1 == IF check_match THEN AcceleratorCheckMatch(w, a, b) ELSE w
        self == w1.accel[a]
        other == w1.accel[b]
    IN  IF ~OK(w1) THEN w1
        ELSE IF self.energy = None /\ other.energy = None THEN Raise(w1, "RuntimeError")
        ELSE IF other.energy = None THEN SetEnergy(w1, b, AsEnergy(self.energy))
        ELSE SetEnergy(w1, a, AsEnergy(other.energy))

-----------------------------------------------------------------------------
(* DelegatedAttribute, HasGridMixin and HasAcceleratorMixin *)

\* the attributes the mixins delegate, and the property they delegate each to
DelegateName(attr_name) == IF attr_name = "energy" THEN "accelerator" ELSE "grid"

\* an object built with its own Grid and its own Accelerator
OwnObjects == [r1 |-> [grid |-> "A", accelerator |-> "P"],
               r2 |-> [grid |-> "B", accelerator |-> "Q"]]

\* a delegate that is a copy held by the owner, never another owner's object
DelegateCopy(w, instance, delegate_name) == OwnObjects[instance][delegate_name]

\* DelegatedAttribute.delegate: the properties `grid` and `accelerator` return
\* the object held in _grid and _accelerator
Delegate(w, instance, delegate_name) == w.owner[instance][delegate_name]

\* getattr(target, attr_name) on a Grid or an Accelerator
GetAttr(w, target, attr_name) ==
    CASE attr_name = "extent" -> w.grid[target].extent
      [] attr_name = "gpts" -> w.grid[target].gpts
      [] attr_name = "sampling" -> w.grid[target].sampling
      [] attr_name = "energy" -> w.accel[target].energy

\* setattr(target, attr_name, value) on a Grid or an Accelerator: the setter
\* of the property
SetAttr(w, target, attr_name, value) ==
    CASE attr_name = "extent" -> SetExtent(w, target, value)
      [] attr_name = "gpts" -> SetGpts(w, target, value)
      [] attr_name = "sampling" -> SetSampling(w, target, value)
      [] attr_name = "energy" -> SetEnergy(w, target, value)

\* DelegatedAttribute.__get__
DelegatedGet(w, instance, attr_name) ==
    [w EXCEPT !.result = GetAttr(w, Delegate(w, instance, DelegateName(attr_name)), attr_name)]

\* a __set__ that stores the value in the delegate's field
DelegatedSetField(w, instance, attr_name, value) ==
    LET target == Delegate(w, instance, DelegateName(attr_name)) IN
    IF attr_name = "energy" THEN [w EXCEPT !.accel[target].energy = value.v]
    ELSE [w EXCEPT !.grid[target][attr_name] = value.v]

\* DelegatedAttribute.__set__
DelegatedSet(w, instance, attr_name, value) ==
    SetAttr(w, Delegate(w, instance, DelegateName(attr_name)), attr_name, value)

\* HasAcceleratorMixin.accelerator, the setter: the second assignment is of
\* new.changed to itself
SetAccelerator(w, instance, new) == [w EXCEPT !.owner[instance].accelerator = new]

-----------------------------------------------------------------------------
(* utils/utils.py: subdivide_into_batches *)

\* sum(v)
RECURSIVE Sum(_)
Sum(v) == IF v = << >> THEN 0 ELSE Head(v) + Sum(Tail(v))

\* the loop of subdivide_into_batches that puts every batch in front of the list
RECURSIVE BatchLoop(_, _, _, _, _)
BatchLoop(i, v, num_batches, zp, pp) ==
    IF i = num_batches THEN v
    ELSE BatchLoop(i + 1, <<IF i >= zp THEN pp + 1 ELSE pp>> \o v, num_batches, zp, pp)

\* a subdivision that gives every batch num_items // num_batches items
SubdivideEvenly(num_items, num_batches, max_batch) ==
    IF num_batches = None \/ max_batch # None \/ num_batches[1] < 1
    THEN [raised |-> "RuntimeError", result |-> None]
    ELSE [raised |-> NoError,
          result |-> [k \in 1..num_batches[1] |-> num_items \div num_batches[1]]]

\* subdivide_into_batches(num_items, num_batches, max_batch), num_items >= 0,
\* the other two None or <<k>> with k >= 0
SubdivideIntoBatches(num_items, num_batches, max_batch) ==
    IF num_batches # None /\ max_batch # None THEN [raised |-> "RuntimeError", result |-> None]
    ELSE IF num_batches = None /\ max_batch = None
    THEN [raised |-> "RuntimeError", result |-> None]
    ELSE IF num_batches = None /\ max_batch[1] = 0
    THEN [raised |-> "ZeroDivisionError", result |-> None]
    ELSE LET n == IF num_batches # None THEN num_batches[1]
                  ELSE (num_items + ((-num_items) % max_batch[1])) \div max_batch[1]
         IN  IF num_items < n THEN [raised |-> "RuntimeError", result |-> None]
             ELSE IF n = 0 THEN [raised |-> "ZeroDivisionError", result |-> None]
             ELSE IF num_items % n = 0
             THEN [raised |-> NoError, result |-> [k \in 1..n |-> num_items \div n]]
             ELSE [raised |-> NoError,
                   result |-> BatchLoop(0, << >>, n, n - (num_items % n), num_items \div n)]

-----------------------------------------------------------------------------
(* core/config.py: set *)

\* A dict with its nested dicts is a function from paths (sequences of keys)
\* to nodes: the node at the empty path is the dict itself, the node at a path
\* is the value found by following the keys, a dict or a plain value.
DictNode == [dict |-> TRUE, v |-> 0]
PlainNode(k) == [dict |-> FALSE, v |-> k]

\* {} and a plain value, as values of their own
EmptyDict == [p \in {<< >>} |-> DictNode]
Plain(k) == [p \in {<< >>} |-> PlainNode(k)]

IsPrefix(p, q) == Len(p) <= Len(q) /\ SubSeq(q, 1, Len(p)) = p

\* d[key] for the dict d found at path p of t, key the last of path
ValueAt(t, path) ==
    [q \in {SubSeq(r, Len(path) + 1, Len(r)) : r \in {r \in DOMAIN t : IsPrefix(path, r)}}
        |-> t[path \o q]]

\* d[key] = value
PutAt(t, path, value) ==
    [q \in {r \in DOMAIN t : ~IsPrefix(path, r)} \cup {path \o r : r \in DOMAIN value}
        |-> IF IsPrefix(path, q) THEN value[SubSeq(q, Len(path) + 1, Len(q))] ELSE t[q]]

\* d.pop(key, None)
PopAt(t, path) == [q \in {r \in DOMAIN t : ~IsPrefix(path, r)} |-> t[q]]

\* the other spelling of a key: underscores for hyphens or hyphens for underscores
AltKey(k) == IF k = "x_y" THEN "x-y" ELSE IF k = "x-y" THEN "x_y" ELSE k

\* dask.config.canonical_name(k, d), d the value at `path`: the spelling of k
\* that d has, k when d has neither or is no dict
CanonicalName(k, t, path) ==
    IF ~t[path].dict THEN k
    ELSE IF (path \o <<k>>) \in DOMAIN t THEN k
    ELSE IF (path \o <<AltKey(k)>>) \in DOMAIN t THEN AltKey(k)
    ELSE k

\* config.deprecations: empty
Deprecations == << >>

\* check_deprecations(key)
CheckDeprecations(key) == IF key \in DOMAIN Deprecations THEN Deprecations[key] ELSE key

\* set._assign(keys, value, d, path, record), d the value at `path` of
\* st.config; a test or an assignment of a key on a d that is no dict raises
\* TypeError
RECURSIVE ConfigAssign(_, _, _, _, _)
ConfigAssign(st, keys, value, path, record) ==
    LET t == st.config
        key == CanonicalName(keys[1], t, path)
        path1 == path \o <<key>>
    IN  IF ~t[path].dict THEN [st EXCEPT !.raised = "TypeError"]
        ELSE IF Len(keys) = 1
        THEN [st EXCEPT !.config = PutAt(t, path1, value),
                        !.record = IF ~record THEN @
                                   ELSE IF path1 \in DOMAIN t
                                   THEN Append(@, [op |-> "replace", path |-> path1,
                                                   value |-> ValueAt(t, path1)])
                                   ELSE Append(@, [op |-> "insert", path |-> path1,
                                                   value |-> << >>])]
        ELSE IF path1 \notin DOMAIN t
        THEN ConfigAssign([st EXCEPT !.config = PutAt(t, path1, EmptyDict),
                                    !.record = IF record
                                               THEN Append(@, [op |-> "insert", path |-> path1,
                                                               value |-> << >>])
                                               ELSE @],
                          Tail(keys), value, path1, FALSE)
        ELSE ConfigAssign(st, Tail(keys), value, path1, record)

\* set.__init__(arg, config): the keys of arg assigned in their order; an
\* exception ends the constructor and leaves what was assigned before it
RECURSIVE SetInit(_, _)
SetInit(st, arg) ==
    IF arg = << >> \/ st.raised # NoError THEN st
    ELSE SetInit(ConfigAssign(st, CheckDeprecations(Head(arg).key), Head(arg).value, << >>, TRUE),
                 Tail(arg))

\* set.__exit__, "replace": d = d.setdefault(key, {}) along path[:-1], then
\* d[path[-1]] = value
RECURSIVE UndoReplace(_, _, _, _)
UndoReplace(st, path, k, value) ==
    LET t == st.config
        d == SubSeq(path, 1, k - 1)
    IN  IF ~t[d].dict THEN [st EXCEPT !.raised = IF k = Len(path) THEN "TypeError"
                                                 ELSE "AttributeError"]
        ELSE IF k = Len(path) THEN [st EXCEPT !.config = PutAt(t, path, value)]
        ELSE UndoReplace(IF SubSeq(path, 1, k) \in DOMAIN t THEN st
                         ELSE [st EXCEPT !.config = PutAt(t, SubSeq(path, 1, k), EmptyDict)],
                         path, k + 1, value)

\* set.__exit__, "insert": d = d[key] along path[:-1], a KeyError ending the
\* undo of this record, then d.pop(path[-1], None)
RECURSIVE UndoInsert(_, _, _)
UndoInsert(st, path, k) ==
    LET t == st.config
        d == SubSeq(path, 1, k - 1)
    IN  IF ~t[d].dict THEN [st EXCEPT !.raised = IF k = Len(path) THEN "AttributeError"
                                                 ELSE "TypeError"]
        ELSE IF k = Len(path) THEN [st EXCEPT !.config = PopAt(t, path)]
        ELSE IF SubSeq(path, 1, k) \notin DOMAIN t THEN st
        ELSE UndoInsert(st, path, k + 1)

\* set.__exit__: the records undone from the last to the first
RECURSIVE SetExit(_, _)
SetExit(st, record) ==
    IF record = << >> \/ st.raised # NoError THEN st
    ELSE LET r == record[Len(record)]
         IN  SetExit(IF r.op = "replace" THEN UndoReplace(st, r.path, 1, r.value)
                     ELSE UndoInsert(st, r.path, 1),
                     SubSeq(record, 1, Len(record) - 1))

-----------------------------------------------------------------------------
(* The state machine *)

\* the objects as one value, with the outcome of the running operation: the
\* exception raised, the value returned, how often the operation behind a
\* memoized method ran, the callbacks called and the caches cleared
World == [grid |-> grid, accel |-> accel, changed |-> changed, cache |-> cache,
          owner |-> owner,
          raised |-> NoError, result |-> None, invoked |-> 0, called |-> << >>,
          cleared |-> {}]

\* Cache(max_size): None or an int
MaxSizes == {None} \cup {<<k>> : k \in 0..MaxSize}

\* cache_clear_callback(cache) for the caches C, as registered on an event
CallbacksFor(C) == {[kind |-> "cache_clear", target |-> c] : c \in C}

\* cache_clear_callback(cache) of the receiver's cache
Callbacks == CallbacksFor({"c1"})

NoTally == [computed |-> 0, served |-> 0]

\* history of the memoized calls on cache c since it was last cleared: how many
\* ran the operation behind, how many did not
TallyAfter(w, l, c) ==
    IF c \in w.cleared THEN NoTally
    ELSE IF l.op = "call" /\ l.id = c
    THEN [computed |-> tally[c].computed + w.invoked,
          served |-> tally[c].served + (1 - w.invoked)]
    ELSE tally[c]

NoScen == [step |-> 0, key |-> None, first |-> None, same |-> TRUE, invoked |-> 0,
           registered |-> FALSE, differs |-> FALSE]

Fresh(c) == c.cached = << >> /\ c.hits = 0 /\ c.misses = 0

Registered(ev, c) ==
    \E k \in 1..Len(ev.callbacks) : ev.callbacks[k] = [kind |-> "cache_clear", target |-> c]

\* history of a run: two memoized calls with one key on a fresh cache (steps 1
\* and 2), then an assignment on the receiver's grid "A" (step 3), then a third
\* call with the same key (step 4)
ScenAfterCall(w, key) ==
    IF scen.step = 1 /\ scen.key = key
    THEN [scen EXCEPT !.step = 2, !.same = (w.result = scen.first),
                      !.invoked = @ + w.invoked]
    ELSE IF scen.step = 3 /\ scen.key = key
    THEN [scen EXCEPT !.step = 4, !.invoked = w.invoked]
    ELSE IF Fresh(cache["c1"])
    THEN [NoScen EXCEPT !.step = 1, !.key = key, !.first = w.result, !.invoked = w.invoked]
    ELSE NoScen

ScenAfterAssign(w, i, old, new) ==
    IF scen.step = 2 /\ i = "A" /\ OK(w)
    THEN [scen EXCEPT !.step = 3, !.registered = Registered(changed["A"], "c1"),
                      !.differs = (old # new)]
    ELSE NoScen

Done(w, s, l) ==
    /\ grid' = w.grid
    /\ accel' = w.accel
    /\ changed' = w.changed
    /\ cache' = w.cache
    /\ owner' = w.owner
    /\ batches' = batches
    /\ config' = config
    /\ sets' = sets
    /\ scen' = s
    /\ tally' = [c \in CacheIds |-> TallyAfter(w, l, c)]
    /\ last' = [l EXCEPT !.raised = w.raised, !.result = w.result,
                         !.invoked = w.invoked, !.called = w.called,
                         !.dropped = {key \in Keys : /\ Contains(cache["c1"], key)
                                                     /\ ~Contains(w.cache["c1"], key)}]

Op(op, id, other, arg, old) ==
    [op |-> op, id |-> id, other |-> other, arg |-> arg, old |-> old,
     raised |-> NoError, result |-> None, invoked |-> 0, called |-> << >>, dropped |-> {}]

\* no Grid and no Accelerator constructed yet; the receiver's cache constructed
\* as Cache(m), m in M, the other cache as Cache(None)
InitObjects(M) ==
    /\ grid = [i \in GridIds |-> NoGrid]
    /\ accel = [i \in AccelIds |-> NoAccel]
    /\ changed = [i \in EventIds |-> NewEvent]
    /\ cache \in {[c \in CacheIds |-> NewCache(IF c = "c1" THEN m ELSE None)] : m \in M}
    /\ owner = OwnObjects
    /\ scen = NoScen
    /\ tally = [c \in CacheIds |-> NoTally]
    /\ last = Op("start", "", "", None, None)

\* no call of subdivide_into_batches
NoBatches == [state |-> "none"]

\* config.py: config = {}, and no config.set object
InitConfig == config = EmptyDict /\ sets = << >>

InitWith(M) == InitObjects(M) /\ batches = NoBatches /\ InitConfig

Init == InitWith({None})

InitCache == InitWith(MaxSizes)

\* i = Grid(extent, gpts, sampling, dimensions, endpoint, lock_...), with extent,
\* gpts and sampling drawn from E, G and S and the flags from F; a constructor
\* that raised is not run again
Construct(i, E, G, S, F) ==
    /\ ~grid[i].alive
    /\ ~(last.op = "init" /\ last.id = i)
    /\ \E extent \in E, gpts \in G, sampling \in S, dimensions \in 1..MaxDim, endpoint \in F,
          lock_extent, lock_gpts, lock_sampling \in F :
          LET w == GridInit(World, i, extent, gpts, sampling, dimensions, endpoint,
                            lock_extent, lock_gpts, lock_sampling)
          IN  Done(w, NoScen,
                   Op("init", i, "",
                      [extent |-> extent, gpts |-> gpts, sampling |-> sampling,
                       dimensions |-> dimensions, endpoint |-> endpoint,
                       lock_extent |-> lock_extent, lock_gpts |-> lock_gpts,
                       lock_sampling |-> lock_sampling], None))

\* i.extent = value
AssignExtent(i, V) ==
    /\ grid[i].alive
    /\ changed[i].notify_count < MaxNotify
    /\ \E value \in V :
          LET w == SetExtent(World, i, value)
          IN  Done(w, ScenAfterAssign(w, i, grid[i].extent, w.grid[i].extent),
                   Op("extent", i, "", value, grid[i].extent))

\* i.gpts = value
AssignGpts(i, V) ==
    /\ grid[i].alive
    /\ changed[i].notify_count < MaxNotify
    /\ \E value \in V :
          LET w == SetGpts(World, i, value)
          IN  Done(w, ScenAfterAssign(w, i, grid[i].gpts, w.grid[i].gpts),
                   Op("gpts", i, "", value, grid[i].gpts))

\* i.sampling = value
AssignSampling(i, V) ==
    /\ grid[i].alive
    /\ changed[i].notify_count < MaxNotify
    /\ \E value \in V :
          LET w == SetSampling(World, i, value)
          IN  Done(w, ScenAfterAssign(w, i, grid[i].sampling, w.grid[i].sampling),
                   Op("sampling", i, "", value, grid[i].sampling))

\* the Grid or Accelerator i has been constructed
Alive(i) == IF i \in GridIds THEN grid[i].alive ELSE accel[i].alive

\* i.changed.register(callback), the callback one of CB
RegisterOf(i, CB) ==
    /\ Alive(i)
    /\ Len(changed[i].callbacks) < MaxCallbacks
    /\ \E cb \in CB :
          Done([World EXCEPT !.changed[i].callbacks = Append(@, cb)], NoScen,
               Op("register", i, "", cb, None))

\* i.changed.register(cache_clear_callback(cache)), cache the receiver's
Register(i) == RegisterOf(i, Callbacks)

\* i.changed.register(callbacks), the argument a list of callbacks of CB
RegisterList(i, CB) ==
    /\ Alive(i)
    /\ \E n \in 0..MaxListed :
          /\ Len(changed[i].callbacks) + n <= MaxListed
          /\ \E callbacks \in [1..n -> CB] :
                Done([World EXCEPT !.changed[i].callbacks = @ \o callbacks], NoScen,
                     Op("register", i, "", callbacks, None))

\* c.insert(key, value), the value one no memoized method returns
Insert(c) ==
    \E key \in Keys :
        Done([World EXCEPT !.cache[c] = CacheInsert(@, key, << >>)], NoScen,
             Op("insert", c, "", key, None))

\* c.retrieve(key)
Retrieve(c) ==
    \E key \in Keys :
        Done(IF Contains(cache[c], key)
             THEN [World EXCEPT !.result = CacheRetrieve(cache[c], key)]
             ELSE Raise(World, "KeyError"),
             NoScen, Op("retrieve", c, "", key, None))

\* c.clear(); the history keeps the counters before the call
Clear(c) ==
    Done([World EXCEPT !.cache[c] = CacheClear(@), !.cleared = {c}], NoScen,
         Op("clear", c, "", None, [hits |-> cache[c].hits, misses |-> cache[c].misses]))

\* receiver.f(x) or receiver.g(), methods decorated with cached_method, the
\* receiver owning cache c and grid "A"
Call(c) ==
    /\ grid["A"].alive
    /\ cache[c].hits < MaxCount
    /\ cache[c].misses < MaxCount
    /\ \E key \in Keys :
          LET w == CachedMethod(World, c, Head(key), Tail(key))
          IN  Done(w, ScenAfterCall(w, key), Op("call", c, "", key, None))

\* r.f(x) or r.g() on the receiver r, whose cache is c
CallBy(r, c) ==
    /\ grid[owner[r].grid].alive
    /\ cache[c].hits < MaxCount
    /\ cache[c].misses < MaxCount
    /\ \E key \in Keys :
          LET w == CachedMethodOf(World, r, c, Head(key), Tail(key))
          IN  Done(w, ScenAfterCall(w, key), Op("call", c, r, key, None))

\* receiver.f(x) or receiver.g() as in Call, with the cap on the misses that
\* lets a key be asked for again after it was evicted
CallAgain(c) ==
    /\ grid["A"].alive
    /\ cache[c].hits < MaxCount
    /\ cache[c].misses < MaxMisses
    /\ \E key \in Keys :
          LET w == CachedMethod(World, c, Head(key), Tail(key))
          IN  Done(w, ScenAfterCall(w, key), Op("call", c, "", key, None))

\* i.snap_to_power(n); the history keeps gpts before the call
Snap(i) ==
    /\ grid[i].alive
    /\ changed[i].notify_count < MaxNotify
    /\ \E n \in 2..MaxPower :
          Done(SnapToPower(World, i, n), NoScen, Op("snap", i, "", n, grid[i].gpts))

\* i.changed.notify(notifier, property_name, change), called directly
Fire(i) ==
    /\ Alive(i)
    /\ changed[i].notify_count < MaxNotify
    /\ \E change \in BOOLEAN :
          Done(Notify(World, i, change), NoScen, Op("notify", i, "", change, None))

\* i = Accelerator(energy, lock_energy), the energy drawn from E; a constructor
\* that raised is not run again
ConstructAccelerator(i, E) ==
    /\ ~accel[i].alive
    /\ ~(last.op = "init" /\ last.id = i)
    /\ \E energy \in E, lock_energy \in BOOLEAN :
          Done(AcceleratorInit(World, i, energy, lock_energy), NoScen,
               Op("init", i, "", [energy |-> energy, lock_energy |-> lock_energy], None))

\* i.energy = value
AssignEnergy(i, V) ==
    /\ accel[i].alive
    /\ changed[i].notify_count < MaxNotify
    /\ \E value \in V :
          Done(SetEnergy(World, i, value), NoScen,
               Op("energy", i, "", value, accel[i].energy))

\* the attributes of the mixins
DelegatedAttributes == {"extent", "gpts", "sampling", "energy"}

\* the object that owner o's attribute is delegated to has been constructed
Owned(o, attr_name) == Alive(owner[o][DelegateName(attr_name)])

\* o.extent, o.gpts, o.sampling or o.energy read on the owner o
FacadeRead(o) ==
    \E attr_name \in DelegatedAttributes :
        /\ Owned(o, attr_name)
        /\ Done(DelegatedGet(World, o, attr_name), NoScen, Op("get", o, attr_name, None, None))

\* o.extent = value, o.gpts = value, o.sampling = value or o.energy = value
\* on the owner o, the value one of V
FacadeAssign(o, V) ==
    \E attr_name \in DelegatedAttributes, value \in V :
        /\ Owned(o, attr_name)
        /\ changed[owner[o][DelegateName(attr_name)]].notify_count < MaxNotify
        /\ Done(DelegatedSet(World, o, attr_name, value), NoScen,
                Op("set", o, attr_name, value, None))

\* o is given the Grid that owner p holds: o._grid = p.grid
ShareGrid(o, p) ==
    /\ owner[o].grid # owner[p].grid
    /\ Done([World EXCEPT !.owner[o].grid = owner[p].grid], NoScen,
            Op("share", o, p, "grid", None))

\* o.accelerator = p.accelerator
ShareAccelerator(o, p) ==
    /\ owner[o].accelerator # owner[p].accelerator
    /\ Done(SetAccelerator(World, o, owner[p].accelerator), NoScen,
            Op("share", o, p, "accelerator", None))

\* a.match(b, check_match) of two Accelerators; the history keeps the energies
\* before the call and, when the call before was the same match and returned,
\* the energies before that one
MatchAccelerators(a, b) ==
    /\ accel[a].alive /\ accel[b].alive
    /\ changed[a].notify_count < MaxNotify
    /\ changed[b].notify_count < MaxNotify
    /\ \E check_match \in BOOLEAN :
          Done(AcceleratorMatch(World, a, b, check_match), NoScen,
               Op("match", a, b, check_match,
                  [self |-> accel[a].energy, other |-> accel[b].energy,
                   prior |-> IF /\ last.op = "match" /\ last.raised = NoError
                                /\ last.id = a /\ last.other = b
                             THEN <<last.old.self, last.old.other>>
                             ELSE None]))

\* a.match(b, check_match) of two Grids; match assigns up to two descriptors
\* of one grid
MatchGrids(a, b) ==
    /\ grid[a].alive /\ grid[b].alive
    /\ changed[a].notify_count + 2 <= MaxNotify
    /\ changed[b].notify_count + 2 <= MaxNotify
    /\ \E check_match \in BOOLEAN :
          Done(Match(World, a, b, check_match), NoScen,
               Op("match", a, b, check_match, [self |-> grid[a], other |-> grid[b]]))

\* an int argument that may be left out: None or <<k>>
OptionalInts == {None} \cup {<<k>> : k \in 0..MaxItems}

\* the arguments of a call of subdivide_into_batches
InitBatches ==
    /\ InitObjects({None})
    /\ InitConfig
    /\ batches \in {[state |-> "called", num_items |-> n, num_batches |-> b, max_batch |-> m,
                      raised |-> NoError, result |-> None] :
                        n \in 0..MaxItems, b \in OptionalInts, m \in OptionalInts}

\* subdivide_into_batches returns or raises
Subdivide ==
    /\ batches.state = "called"
    /\ LET r == SubdivideIntoBatches(batches.num_items, batches.num_batches, batches.max_batch)
       IN  batches' = [batches EXCEPT !.state = "returned", !.raised = r.raised,
                                      !.result = r.result]
    /\ UNCHANGED <<grid, accel, changed, cache, owner, config, sets, scen, tally, last>>

NextBatches == Subdivide

SpecBatches == InitBatches /\ [][NextBatches]_vars

\* the keys of a configuration: one key in its two spellings and another key
ConfigKeys == {"x_y", "x-y", "z"}

\* the keys of a mapping after key.split("."): a plain key, or a key of the
\* dict under a plain key
DottedKeys == {<<k>> : k \in ConfigKeys} \cup {<<k, "z">> : k \in ConfigKeys}

\* the mappings handed to config.set, as the sequence of their items: up to n
\* keys, each with a plain value or a dict
Mappings(n) ==
    UNION {[1..m -> {[key |-> k, value |-> v] : k \in DottedKeys, v \in {Plain(1), EmptyDict}}] :
             m \in 0..n}

\* the step of an operation on the configuration
ConfigDone(st, s, l) ==
    /\ config' = st.config
    /\ sets' = s
    /\ last' = [l EXCEPT !.raised = st.raised]
    /\ UNCHANGED <<grid, accel, changed, cache, owner, batches, scen, tally>>

\* the keys in the mappings of the open with-blocks
OpenEntries == Sum([k \in 1..Len(sets) |-> sets[k].entries])

\* set(arg, config=config) not used as a context manager, while no
\* with-block is open: the values stay
SetGlobally ==
    /\ sets = << >>
    /\ \E arg \in Mappings(1) :
          ConfigDone(SetInit([config |-> config, record |-> << >>, raised |-> NoError], arg),
                     sets, Op("config", "", "", None, None))

\* with set(arg, config=config): the constructor; when it raises there is no
\* with-block.  The history keeps the configuration before the constructor.
SetEnter ==
    /\ Len(sets) < MaxNest
    /\ \E arg \in Mappings(IF MaxOpenEntries - OpenEntries < MaxEntries
                            THEN MaxOpenEntries - OpenEntries ELSE MaxEntries) :
          /\ OpenEntries + Len(arg) <= MaxOpenEntries
          /\ LET st == SetInit([config |-> config, record |-> << >>, raised |-> NoError], arg)
             IN  ConfigDone(st,
                            IF st.raised = NoError
                            THEN Append(sets, [record |-> st.record, entries |-> Len(arg),
                                               before |-> config])
                            ELSE sets,
                            Op("enter", "", "", None, None))

\* the innermost with-block exits: set.__exit__
SetLeave ==
    /\ sets # << >>
    /\ LET top == sets[Len(sets)]
       IN  ConfigDone(SetExit([config |-> config, record |-> << >>, raised |-> NoError],
                              top.record),
                      SubSeq(sets, 1, Len(sets) - 1),
                      Op("exit", "", "", top.record, top.before))

\* a configuration, values set for good and values set for with-blocks,
\* properly nested
NextConfig ==
    \/ SetGlobally
    \/ SetEnter
    \/ SetLeave

SpecConfig == Init /\ [][NextConfig]_vars

\* one Grid, its constructor, its setters and its event
Next ==
    \/ Construct("A", Values, Values, Values, BOOLEAN)
    \/ AssignExtent("A", Values)
    \/ AssignGpts("A", Values)
    \/ AssignSampling("A", Values)
    \/ Register("A")

Spec == Init /\ [][Next]_vars

\* the gpts a receiver's grid takes in the specification of the cache
FewValues == {[kind |-> "scalar", v |-> <<FromInt(k)>>] : k \in 1..MaxNum}

\* a receiver with its cache and its grid "A": the cache's operations, memoized
\* calls, and assignments on the grid
NextCache ==
    \/ Construct("A", {NoneValue}, FewValues, {NoneValue}, {FALSE})
    \/ AssignGpts("A", FewValues)
    \/ Register("A")
    \/ Insert("c1")
    \/ Retrieve("c1")
    \/ Clear("c1")
    \/ Call("c1")

SpecCache == InitCache /\ [][NextCache]_vars

\* a receiver with its cache, its grid "A" and its accelerator "P": memoized
\* calls and assignments, the cache's callback registered on either event
NextClear ==
    \/ Construct("A", {NoneValue}, FewValues, {NoneValue}, {FALSE})
    \/ ConstructAccelerator("P", FewValues)
    \/ AssignExtent("A", FewValues)
    \/ AssignGpts("A", FewValues)
    \/ AssignSampling("A", FewValues)
    \/ AssignEnergy("P", FewValues)
    \/ Register("A")
    \/ Register("P")
    \/ Call("c1")

SpecClear == Init /\ [][NextClear]_vars

\* an event with the callback of one of two caches registered, notified
\* directly with either flag or by an assignment; the two caches filled by
\* memoized calls and by inserts
NextCallback ==
    \/ Construct("A", {NoneValue}, FewValues, {NoneValue}, {FALSE})
    \/ RegisterOf("A", CallbacksFor(CacheIds))
    \/ AssignGpts("A", FewValues)
    \/ Fire("A")
    \/ Call("c1")
    \/ Insert("c2")

SpecCallback == Init /\ [][NextCallback]_vars

\* what the two grids of a match are constructed from: None or a whole number
MatchValues == {NoneValue} \cup FewValues

\* two Grids, constructed under any lock and with any of extent, gpts and
\* sampling given, and A.match(B)
NextMatch ==
    \/ Construct("A", MatchValues, MatchValues, MatchValues, BOOLEAN)
    \/ Construct("B", MatchValues, MatchValues, MatchValues, BOOLEAN)
    \/ MatchGrids("A", "B")

SpecMatch == Init /\ [][NextMatch]_vars

\* the energies a caller passes: None, a whole number, or no number at all
EnergyValues == {NoneValue, OtherValue} \cup FewValues

\* two Accelerators, their constructor, their setter and P.match(Q)
NextAccel ==
    \/ ConstructAccelerator("P", EnergyValues)
    \/ ConstructAccelerator("Q", EnergyValues)
    \/ AssignEnergy("P", EnergyValues)
    \/ AssignEnergy("Q", EnergyValues)
    \/ MatchAccelerators("P", "Q")

SpecAccel == Init /\ [][NextAccel]_vars

\* the callbacks of the specification of the event: two that return and one
\* that raises
EventCallbacks ==
    {[kind |-> "plain", target |-> "p1"], [kind |-> "plain", target |-> "p2"],
     [kind |-> "raise", target |-> "r"]}

\* the event of Accelerator "P": lists of callbacks registered, the event
\* notified directly with either flag and by assignments of the energy
NextEvent ==
    \/ ConstructAccelerator("P", {NoneValue})
    \/ RegisterList("P", EventCallbacks)
    \/ AssignEnergy("P", FewValues)
    \/ Fire("P")

SpecEvent == Init /\ [][NextEvent]_vars

\* the values assigned through an owner: a whole number, no number at all, a
\* tuple too long for any grid
DelegatedValues ==
    {OtherValue, [kind |-> "seq", v |-> [k \in 1..MaxDim + 1 |-> FromInt(1)]]}
        \cup FewValues

\* two owners, the first with a Grid, empty and under any lock, and an
\* Accelerator, the second then given the first's; reads and assignments
\* through either owner
NextFacade ==
    \/ Construct("A", {NoneValue}, {NoneValue}, {NoneValue}, BOOLEAN)
    \/ ConstructAccelerator("P", {NoneValue})
    \/ Register("A")
    \/ ShareGrid("r2", "r1")
    \/ ShareAccelerator("r2", "r1")
    \/ \E o \in OwnerIds : FacadeRead(o)
    \/ \E o \in OwnerIds : FacadeAssign(o, DelegatedValues)

SpecFacade == Init /\ [][NextFacade]_vars

\* two receivers, each with its own Grid, whose cache property returns one and
\* the same Cache: memoized calls on either receiver
NextShared ==
    \/ Construct("A", {NoneValue}, FewValues, {NoneValue}, {FALSE})
    \/ Construct("B", {NoneValue}, FewValues, {NoneValue}, {FALSE})
    \/ Clear("c1")
    \/ \E r \in OwnerIds : CallBy(r, "c1")

SpecShared == InitCache /\ [][NextShared]_vars

\* one Grid, constructed under any lock and with any of extent, gpts and
\* sampling given, and its snap_to_power
NextSnap ==
    \/ Construct("A", MatchValues, MatchValues, MatchValues, BOOLEAN)
    \/ Snap("A")

SpecSnap == Init /\ [][NextSnap]_vars

\* a receiver whose grid "A" is constructed once and never assigned, so that
\* f and g are pure in their arguments; memoized calls on its cache, of any
\* bound, and clears
NextPure ==
    \/ (~grid["A"].alive /\ Construct("A", {NoneValue}, FewValues, {NoneValue}, {FALSE}))
    \/ CallAgain("c1")
    \/ Clear("c1")

SpecPure == InitCache /\ [][NextPure]_vars

\* two Grids, A constructed under any lock, B without one; assignments on A
\* and A.match(B)
NextNotify ==
    \/ Construct("A", MatchValues, MatchValues, MatchValues, BOOLEAN)
    \/ Construct("B", MatchValues, MatchValues, {NoneValue}, {FALSE})
    \/ AssignExtent("A", MatchValues)
    \/ AssignGpts("A", MatchValues)
    \/ AssignSampling("A", MatchValues)
    \/ MatchGrids("A", "B")

SpecNotify == Init /\ [][NextNotify]_vars

\* the callbacks registered on the receiver's grid: the callback of its cache
\* and a callback that calls its memoized method
ReaderCallbacks == CallbacksFor({"c1"}) \cup {[kind |-> "call", target |-> "c1"]}

\* a receiver with its cache and its grid "A": the two callbacks registered in
\* any order, memoized calls, and assignments of gpts
NextReader ==
    \/ Construct("A", {NoneValue}, FewValues, {NoneValue}, {FALSE})
    \/ RegisterList("A", ReaderCallbacks)
    \/ Call("c1")
    \/ AssignGpts("A", FewValues)

SpecReader == Init /\ [][NextReader]_vars

-----------------------------------------------------------------------------
(* Properties of the Grid setters and constructor, checked under Spec *)

AssignOps == {"extent", "gpts", "sampling"}

Descriptor(g, op) ==
    IF op = "extent" THEN g.extent ELSE IF op = "gpts" THEN g.gpts ELSE g.sampling

Locked(g, op) ==
    IF op = "extent" THEN g.lock_extent
    ELSE IF op = "gpts" THEN g.lock_gpts ELSE g.lock_sampling

\* the last operation assigned a descriptor of a grid and returned
Assigned == last.op \in AssignOps /\ last.raised = NoError

\* the tuple the last assignment asked for
Requested ==
    Validate(grid[last.id].dimensions, last.arg, IF last.op = "gpts" THEN "int" ELSE "float")

\* the last operation assigned a defined descriptor the value it already had
NoopSet == Assigned /\ last.old # None /\ Requested = last.old

\* C1 (as claimed): assigning an unlocked, defined descriptor its current value
\* leaves changed.notify_count as it was and calls no registered callback.
C1_NoopSetIsSilent ==
    [][NoopSet' => /\ changed'[last'.id].notify_count = changed[last'.id].notify_count
                   /\ last'.called = << >>]_vars

\* C2: a successful assignment of a value different from the current one
\* increments changed.notify_count by exactly one, whichever descriptor was
\* re-derived on the way.
C2_ChangeNotifiesOnce ==
    [][(Assigned' /\ Requested' # last'.old)
          => changed'[last'.id].notify_count = changed[last'.id].notify_count + 1]_vars

\* C2 witness: gpts was assigned a new value on a grid with a defined extent, so
\* that sampling was re-derived, and the count went from 0 to 1.
C2_Witness ==
    /\ Assigned /\ last.op = "gpts" /\ last.old # None /\ Requested # last.old
    /\ grid[last.id].extent # None /\ grid[last.id].sampling # None
    /\ changed[last.id].notify_count = 1

\* C3: assigning a locked descriptor raises the state error (RuntimeError),
\* leaves extent, gpts and sampling unchanged and notifies nothing; for each of
\* the three descriptors.
C3_LockedAssignFails ==
    [][\A op \in AssignOps :
          (last'.op = op /\ Locked(grid[last'.id], op))
             => /\ last'.raised = "RuntimeError"
                /\ grid' = grid
                /\ changed' = changed
                /\ last'.called = << >>]_vars

\* C3 witness: an assignment to a locked, defined sampling has raised, with a
\* callback registered on the event.
C3_Witness ==
    /\ last.op = "sampling" /\ last.raised = "RuntimeError"
    /\ grid[last.id].lock_sampling /\ grid[last.id].sampling # None
    /\ last.arg.kind = "scalar"
    /\ changed[last.id].callbacks # << >>

Defined3(g) == g.extent # None /\ g.gpts # None /\ g.sampling # None

LockedValue(g) ==
    IF g.lock_extent THEN g.extent
    ELSE IF g.lock_gpts THEN g.gpts
    ELSE IF g.lock_sampling THEN g.sampling ELSE None

\* C4 (as claimed): once a grid has a locked descriptor and all three
\* descriptors defined, no operation changes the locked descriptor.
C4_LockedNeverChanges ==
    [][\A i \in GridIds :
          (grid[i].alive /\ Defined3(grid[i]))
             => LockedValue(grid'[i]) = LockedValue(grid[i])]_vars

\* extent = gpts * sampling, or (gpts - 1) * sampling with the endpoint
Related(g) ==
    \A k \in 1..g.dimensions :
        g.extent[k] = IntTimes(IF g.endpoint THEN g.gpts[k] - 1 ELSE g.gpts[k], g.sampling[k])

NumDefined(g) == B2N(g.extent # None) + B2N(g.gpts # None) + B2N(g.sampling # None)

\* C5 (as claimed): in every state of a grid, when two of extent, gpts and
\* sampling are defined, the third is defined too and extent = gpts * sampling
\* ((gpts - 1) * sampling with the endpoint) on every axis.
C5_TwoDefineTheThird ==
    \A i \in GridIds :
        (grid[i].alive /\ NumDefined(grid[i]) >= 2) => (Defined3(grid[i]) /\ Related(grid[i]))

Given(value) == value.kind \in {"scalar", "seq"}

-----------------------------------------------------------------------------
(* Properties of Cache and cached_method, checked under SpecCache *)

Bounded(c) == c.max_size # None

\* the last n elements of s, all of s when it is shorter
LastN(s, n) == IF Len(s) <= n THEN s ELSE SubSeq(s, Len(s) - n + 1, Len(s))

\* C7: a cache with max_size = k holds at most k entries when an operation has
\* returned, and with max_size None an insert, a retrieve or a memoized call
\* removes no entry.
C7_SizeBound ==
    [][\A c \in CacheIds :
          /\ Bounded(cache'[c]) => CacheLen(cache'[c]) <= cache'[c].max_size[1]
          /\ (~Bounded(cache[c]) /\ last'.op \in {"insert", "retrieve", "call"})
                => \A key \in Keys : Contains(cache[c], key) => Contains(cache'[c], key)]_vars

\* C7 witness: an insert into a full cache with max_size 2 has evicted an
\* entry and left 2 entries.
C7_Witness ==
    /\ last.op = "insert" /\ last.dropped # {}
    /\ cache["c1"].max_size = <<2>> /\ CacheLen(cache["c1"]) = 2

\* C8: eviction follows the order of first insertion.  A new key goes last and
\* the oldest entries are dropped until max_size remain; retrieving or
\* re-inserting a present key, or a memoized call that hits, leaves the order
\* of the keys as it was.
C8_FifoEviction ==
    [][\A c \in CacheIds :
          last'.id = c =>
             /\ (/\ last'.op \in {"insert", "retrieve", "call"}
                 /\ Contains(cache[c], last'.arg))
                   => CachedKeys(cache'[c]) = CachedKeys(cache[c])
             /\ (/\ last'.op \in {"insert", "call"}
                 /\ ~Contains(cache[c], last'.arg))
                   => CachedKeys(cache'[c]) =
                         IF Bounded(cache[c])
                         THEN LastN(Append(CachedKeys(cache[c]), last'.arg), cache[c].max_size[1])
                         ELSE Append(CachedKeys(cache[c]), last'.arg)]_vars

\* C8 witness: a third key was inserted into a cache with max_size 2; the
\* first-inserted key was evicted and the new key is the last of 2 entries.
C8_Witness ==
    /\ last.op = "insert" /\ Cardinality(last.dropped) = 1
    /\ cache["c1"].max_size = <<2>> /\ CacheLen(cache["c1"]) = 2
    /\ cache["c1"].cached[2].key = last.arg

\* scen.step = 2: the same memoized call was made twice in a row, the first
\* on a cache that was empty with both counters zero
CalledTwice == scen.step = 2 /\ last.op = "call"

\* C9 (as claimed): of two such calls the operation behind runs for one only,
\* both return the same value, and then the miss count is 1 and the hit count 1.
C9_SecondCallHits ==
    CalledTwice => /\ scen.invoked = 1
                   /\ scen.same
                   /\ cache["c1"].misses = 1
                   /\ cache["c1"].hits = 1

\* C9 (amended): the same, for a cache whose max_size is None or at least 1.
C9_SecondCallHitsIfRoom ==
    (CalledTwice /\ cache["c1"].max_size # <<0>>)
        => /\ scen.invoked = 1
           /\ scen.same
           /\ last.invoked = 0
           /\ cache["c1"].misses = 1
           /\ cache["c1"].hits = 1
           /\ CacheHits(cache["c1"]) = 1
           /\ CacheMisses(cache["c1"]) = 1

\* C9 witness: two calls in a row of f(1) on a cache with max_size 1.
C9_Witness ==
    /\ CalledTwice /\ scen.key = <<"f", 1>>
    /\ cache["c1"].max_size = <<1>>
    /\ cache["c1"].hits = 1

\* scen.step = 4: after two such calls, gpts of the receiver's grid was
\* assigned a different value with cache_clear_callback(cache) registered on the
\* grid's event, and then the same call was made a third time
ThirdCallAfterChange ==
    scen.step = 4 /\ last.op = "call" /\ scen.registered /\ scen.differs

\* C10 (as claimed): the third call recomputes and the miss count is then 2.
C10_ThirdCallMissesTwice ==
    ThirdCallAfterChange => /\ last.invoked = 1
                            /\ cache["c1"].misses = 2

\* C10 (amended): the third call recomputes, returning the value the operation
\* has for the grid as it is now; the counters were zeroed by the clear, so
\* _misses is then 1 and _hits 0.
C10_ThirdCallRecomputes ==
    ThirdCallAfterChange => /\ last.invoked = 1
                            /\ last.result = Func(World, Head(last.arg), Tail(last.arg))
                            /\ cache["c1"].misses = 1
                            /\ cache["c1"].hits = 0

\* C10 witness: the third call of f(0) after gpts changed from 1 to 2.
C10_Witness ==
    /\ ThirdCallAfterChange /\ scen.key = <<"f", 0>>
    /\ scen.first = <<0, 1>> /\ last.result = <<0, 2>>

\* C11 (as claimed): after any memoized calls and clears, Cache.misses is the
\* number of memoized calls since the last clear that computed a new value,
\* and Cache.hits the number of those served from the cache.
C11_CountersCount ==
    \A c \in CacheIds :
        /\ CacheMisses(cache[c]) = tally[c].computed
        /\ CacheHits(cache[c]) = tally[c].served

-----------------------------------------------------------------------------
(* Properties of the invalidation of memoized results, checked under SpecClear *)

\* the object whose state the memoized method of a key reads
Reads(key) == IF Head(key) = "f" THEN "A" ELSE "P"

\* the receiver's cache holds for the key, if anything, the value the operation
\* behind has now
Current(key) ==
    Contains(cache["c1"], key)
        => CacheRetrieve(cache["c1"], key) = Func(World, Head(key), Tail(key))

\* C12: with cache_clear_callback(cache) registered on the event of a Grid or
\* an Accelerator, the cache is empty when an assignment of extent, gpts,
\* sampling or energy on that object returns; and a memoized call never
\* returns a value computed before an assignment on the object it reads.
C12_AssignmentEmptiesCache ==
    [][/\ \A i \in EventIds :
            (/\ last'.op \in AssignOps \cup {"energy"} /\ last'.id = i
             /\ last'.raised = NoError
             /\ Registered(changed[i], "c1"))
               => /\ CacheLen(cache'["c1"]) = 0
                  /\ \A key \in Keys : ~Contains(cache'["c1"], key)
       /\ \A key \in Keys :
            (Registered(changed[Reads(key)], "c1") /\ Current(key))
               => /\ Current(key)'
                  /\ (last'.op = "call" /\ last'.arg = key)
                        => last'.result = Func(World', Head(key), Tail(key))]_vars

\* C12 witness: an assignment of the energy has returned, with the callback
\* registered, and the entries the cache held are gone.
C12_Witness ==
    /\ last.op = "energy" /\ last.raised = NoError
    /\ last.old # None /\ accel[last.id].energy # last.old
    /\ Registered(changed[last.id], "c1")
    /\ <<"g">> \in last.dropped
    /\ CacheLen(cache["c1"]) = 0

-----------------------------------------------------------------------------
(* Properties of cache_clear_callback, checked under SpecCallback *)

\* the last operation notified an event: the flag `change` it passed
Notified == last.op = "notify" \/ Assigned

Flag == IF last.op = "notify" THEN last.arg ELSE TRUE

\* C13: the callback made by cache_clear_callback(target) clears the target
\* cache when it is called with change true; called with change false it
\* leaves the entries and the counters as they are; and a cache that is not
\* the target of a called callback is left as it is.
C13_ClearsIffChange ==
    [][Notified' =>
          \A c \in CacheIds :
             IF Flag' /\ Registered(changed[last'.id], c)
             THEN Fresh(cache'[c]) /\ cache'[c].max_size = cache[c].max_size
             ELSE cache'[c] = cache[c]]_vars

\* C13 witness: the event was notified with change false, the callback of cache
\* "c1" was called, and the cache still holds its entries and counts.
C13_Witness ==
    /\ last.op = "notify" /\ last.arg = FALSE
    /\ last.called = <<[kind |-> "cache_clear", target |-> "c1"]>>
    /\ CacheLen(cache["c1"]) = 2 /\ cache["c1"].hits = 1 /\ cache["c1"].misses = 2
    /\ CacheLen(cache["c2"]) > 0

-----------------------------------------------------------------------------
(* Properties of Grid.match, checked under SpecMatch *)

\* the last operation was a.match(b, check_match) of two Grids
Matched == last.op = "match" /\ last.id \in GridIds

\* C14 (as claimed): whenever A.match(B) returns without raising, A.extent
\* equals B.extent and A.gpts equals B.gpts, under any lock configuration.
C14_MatchEquates ==
    (Matched /\ ~last.arg /\ last.raised = NoError)
        => /\ grid[last.id].extent = grid[last.other].extent
           /\ grid[last.id].gpts = grid[last.other].gpts

\* C15: A.match(B) with A's extent defined, A's gpts undefined, B's extent and
\* gpts undefined and no sampling on either grid fails with the state error
\* (RuntimeError).
C15_GptsNotInferred ==
    [][(/\ Matched'
        /\ grid[last'.id].extent # None /\ grid[last'.id].gpts = None
        /\ grid[last'.other].extent = None /\ grid[last'.other].gpts = None
        /\ grid[last'.id].sampling = None /\ grid[last'.other].sampling = None)
          => /\ last'.raised = "RuntimeError"
             /\ grid'[last'.id].gpts = None /\ grid'[last'.other].gpts = None]_vars

\* C15 witness: such a match has raised after B adopted A's extent, so the
\* error is the one of the gpts.
C15_Witness ==
    /\ Matched /\ last.raised = "RuntimeError"
    /\ last.old.self.extent # None /\ last.old.self.gpts = None
    /\ last.old.other.extent = None /\ last.old.other.gpts = None
    /\ last.old.self.sampling = None /\ last.old.other.sampling = None
    /\ grid[last.other].extent = grid[last.id].extent
    /\ changed[last.other].notify_count = 1

\* C16: when B has extent and gpts defined, A.match(B) leaves B's extent, gpts
\* and sampling as they are and does not notify B's event, whatever A's state.
C16_OtherUntouched ==
    [][(/\ Matched'
        /\ grid[last'.other].extent # None /\ grid[last'.other].gpts # None)
          => /\ grid'[last'.other] = grid[last'.other]
             /\ changed'[last'.other] = changed[last'.other]]_vars

\* C16 witness: A.match(B) returned, A adopted B's differing extent and gpts,
\* and B is as it was.
C16_Witness ==
    /\ Matched /\ last.raised = NoError
    /\ last.old.other.extent # None /\ last.old.other.gpts # None
    /\ last.old.self.extent # None /\ last.old.self.extent # last.old.other.extent
    /\ last.old.self.gpts # None /\ last.old.self.gpts # last.old.other.gpts
    /\ grid[last.id].extent = last.old.other.extent
    /\ grid[last.id].gpts = last.old.other.gpts
    /\ grid[last.other] = last.old.other
    /\ changed[last.other].notify_count = 0

\* both grids have a defined extent and the two differ, or both have defined
\* gpts and the two differ
Inconsistent(g, h) ==
    \/ g.extent # None /\ h.extent # None /\ g.extent # h.extent
    \/ g.gpts # None /\ h.gpts # None /\ g.gpts # h.gpts

\* C17: A.match(B, check_match=True) on two grids with defined, different
\* extents or defined, different gpts raises before any mutation: extent, gpts
\* and sampling of both grids are unchanged and neither event is notified.
C17_CheckedMatchRaisesFirst ==
    [][(Matched' /\ last'.arg /\ Inconsistent(grid[last'.id], grid[last'.other]))
          => /\ last'.raised = "RuntimeError"
             /\ grid' = grid
             /\ changed' = changed]_vars

\* C17 witness: a checked match of two grids with equal extents and different
\* gpts has raised.
C17_Witness ==
    /\ Matched /\ last.arg /\ last.raised = "RuntimeError"
    /\ last.old.self.extent # None /\ last.old.self.extent = last.old.other.extent
    /\ last.old.self.gpts # None /\ last.old.other.gpts # None
    /\ last.old.self.gpts # last.old.other.gpts
    /\ grid[last.id] = last.old.self /\ grid[last.other] = last.old.other

\* C18 (as claimed): whenever A.match(B, check_match=True) returns without
\* raising, every extent and every gpts that was defined on A or on B before
\* the call is unchanged after it.
C18_CheckedMatchKeepsDefined ==
    [][(Matched' /\ last'.arg /\ last'.raised = NoError)
          => \A i \in {last'.id, last'.other} :
                /\ grid[i].extent # None => grid'[i].extent = grid[i].extent
                /\ grid[i].gpts # None => grid'[i].gpts = grid[i].gpts]_vars

-----------------------------------------------------------------------------
(* Properties of Accelerator.match, checked under SpecAccel *)

\* the last operation was a.match(b, check_match) of two Accelerators
AcceleratorsMatched == last.op = "match" /\ last.id \in AccelIds

Unlocked(a, b) == ~accel[a].lock_energy /\ ~accel[b].lock_energy

\* both energies are defined and they differ
Differ(e, f) == e # None /\ f # None /\ e # f

\* what the claim says A.match(B) does to the energies e of A and f of B
MatchedAsClaimed(a, b, e, f) ==
    IF e = None /\ f = None
    THEN last'.raised = "RuntimeError" /\ accel' = accel
    ELSE IF f = None
    THEN /\ last'.raised = NoError
         /\ accel'[b].energy = e /\ accel'[a].energy = e
    ELSE /\ last'.raised = NoError
         /\ accel'[a].energy = f /\ accel'[b].energy = f

\* C19 (as claimed): for unlocked accelerators, match fails with the state
\* error if both energies are undefined; if only B's is undefined B's energy
\* becomes A's and A's is unchanged; otherwise A's becomes B's and B's is
\* unchanged.
C19_MatchDirection ==
    [][(AcceleratorsMatched' /\ Unlocked(last'.id, last'.other))
          => MatchedAsClaimed(last'.id, last'.other,
                              accel[last'.id].energy, accel[last'.other].energy)]_vars

\* C19 (amended): the same, except that match called with check_match=True on
\* two defined, different energies fails with the state error and changes
\* neither energy and notifies nothing.
C19_MatchDirectionUnlessChecked ==
    [][(AcceleratorsMatched' /\ Unlocked(last'.id, last'.other))
          => IF last'.arg /\ Differ(accel[last'.id].energy, accel[last'.other].energy)
             THEN last'.raised = "RuntimeError" /\ accel' = accel /\ changed' = changed
             ELSE MatchedAsClaimed(last'.id, last'.other,
                                   accel[last'.id].energy, accel[last'.other].energy)]_vars

\* C19 witness: P.match(Q) with P's energy defined and Q's undefined has
\* returned; Q has P's energy and Q's event was notified.
C19_Witness ==
    /\ AcceleratorsMatched /\ last.raised = NoError
    /\ last.old.self # None /\ last.old.other = None
    /\ accel[last.other].energy = last.old.self
    /\ accel[last.id].energy = last.old.self
    /\ changed[last.other].notify_count = 1

\* C20: for unlocked accelerators with defined, differing energies, after
\* A.match(B) both energies are B's original energy; and a further A.match(B)
\* after one that returned leaves both energies as they are.
C20_MatchIdempotent ==
    [][(AcceleratorsMatched' /\ Unlocked(last'.id, last'.other))
          => LET a == last'.id
                 b == last'.other
             IN  /\ (~last'.arg /\ Differ(accel[a].energy, accel[b].energy))
                       => /\ last'.raised = NoError
                          /\ accel'[a].energy = accel[b].energy
                          /\ accel'[b].energy = accel[b].energy
                 /\ (/\ last'.old.prior # None
                     /\ Differ(last'.old.prior[1], last'.old.prior[2]))
                       => /\ last'.raised = NoError
                          /\ accel'[a].energy = accel[a].energy
                          /\ accel'[b].energy = accel[b].energy
                          /\ accel'[a].energy = last'.old.prior[2]]_vars

\* C20 witness: P.match(Q) was called twice in a row on energies that differed
\* before the first call; both are Q's original energy.
C20_Witness ==
    /\ AcceleratorsMatched /\ last.raised = NoError /\ ~last.arg
    /\ last.old.prior # None /\ Differ(last.old.prior[1], last.old.prior[2])
    /\ accel[last.id].energy = last.old.prior[2]
    /\ accel[last.other].energy = last.old.prior[2]
    /\ changed[last.id].notify_count = 2

-----------------------------------------------------------------------------
(* Properties of Event.notify, checked under SpecEvent *)

\* the callbacks of event ev up to and with the first that raises, all of them
\* when none raises
UntilRaise(ev) ==
    LET raising == {k \in 1..Len(ev.callbacks) : ev.callbacks[k].kind = "raise"}
    IN  IF raising = {} THEN ev.callbacks
        ELSE SubSeq(ev.callbacks, 1, CHOOSE k \in raising : \A j \in raising : k <= j)

\* a callback registered on event ev raises
Raises(ev) == \E k \in 1..Len(ev.callbacks) : ev.callbacks[k].kind = "raise"

\* C21: a call of Event.notify adds exactly one to notify_count, with any
\* number of callbacks registered and either value of the flag, and, when no
\* callback raises, calls the registered callbacks once each in the order of
\* their registration; no step makes notify_count smaller
C21_NotifyCountsAndCallsAll ==
    [][/\ \A i \in EventIds : changed'[i].notify_count >= changed[i].notify_count
       /\ last'.op = "notify" =>
             /\ changed'[last'.id].notify_count = changed[last'.id].notify_count + 1
             /\ ~Raises(changed[last'.id]) => last'.called = changed[last'.id].callbacks]_vars

C21_Witness ==
    /\ last.op = "notify"
    /\ last.arg = FALSE
    /\ last.raised = NoError
    /\ Len(last.called) = MaxListed
    /\ last.called[1] # last.called[2]
    /\ changed[last.id].notify_count = MaxNotify

\* C22: when the i-th registered callback raises in Event.notify, the caller
\* of notify gets the exception, the callbacks before the i-th have run once
\* each, the i-th has run, and no callback after it is called
C22_RaiseEndsNotify ==
    [][(last'.op = "notify" /\ Raises(changed[last'.id])) =>
          /\ last'.raised = "CallbackError"
          /\ last'.called = UntilRaise(changed[last'.id])]_vars

C22_Witness ==
    /\ last.op = "notify"
    /\ last.raised = "CallbackError"
    /\ Len(last.called) = 2
    /\ last.called[1].kind = "plain"
    /\ Len(changed[last.id].callbacks) = MaxListed
    /\ changed[last.id].callbacks[MaxListed].kind = "plain"
-----------------------------------------------------------------------------
(* Properties of the delegating mixins, checked under SpecFacade *)

\* the Grid or Accelerator that owner o holds for the attribute
Held(o, attr_name) == IF attr_name = "energy" THEN owner[o].accelerator ELSE owner[o].grid

\* the attribute read on the Grid or Accelerator i itself
ReadOn(i, attr_name) == IF attr_name = "energy" THEN accel[i].energy ELSE Descriptor(grid[i], attr_name)

\* the attribute assigned on the Grid or Accelerator i itself
AssignOn(i, attr_name, value) ==
    IF attr_name = "energy" THEN SetEnergy(World, i, value)
    ELSE IF attr_name = "extent" THEN SetExtent(World, i, value)
    ELSE IF attr_name = "gpts" THEN SetGpts(World, i, value)
    ELSE SetSampling(World, i, value)

\* C23: extent, gpts, sampling and energy read on an owner are the values of
\* the Grid or Accelerator it holds; an assignment through the owner has the
\* effect of the assignment on the held object itself: the same fields after
\* it, the same exception, the same notifications
C23_FacadeIsTransparent ==
    [][/\ last'.op = "get" => last'.result = ReadOn(Held(last'.id, last'.other), last'.other)
       /\ last'.op = "set" =>
             LET w == AssignOn(Held(last'.id, last'.other), last'.other, last'.arg)
             IN  /\ grid' = w.grid
                 /\ accel' = w.accel
                 /\ changed' = w.changed
                 /\ cache' = w.cache
                 /\ last'.raised = w.raised
                 /\ last'.called = w.called]_vars

\* an assignment through an owner set the grid's gpts and called the callback
\* registered on the grid's event
C23_Witness ==
    /\ last.op = "set"
    /\ last.other = "gpts"
    /\ last.raised = NoError
    /\ grid["A"].gpts # None
    /\ Len(last.called) = 1

\* C24: when two owners hold one Grid or Accelerator, what one owner reads
\* right after an assignment through the other is the current value of the
\* shared object, which is also what the assigning owner reads
C24_SharedObjectIsSeenByAll ==
    [][(/\ last.op = "set"
        /\ last'.op = "get"
        /\ last'.other = last.other
        /\ last'.id # last.id
        /\ Held(last'.id, last.other) = Held(last.id, last.other)) =>
          /\ last'.result = ReadOn(Held(last.id, last.other), last.other)
          /\ last'.result = DelegatedGet(World, last.id, last.other).result]_vars

C24_Witness ==
    /\ last.op = "get"
    /\ last.id = "r2"
    /\ owner["r2"].grid = owner["r1"].grid
    /\ last.other = "sampling"
    /\ last.result = <<FromInt(MaxNum)>>
-----------------------------------------------------------------------------
(* Properties of Grid._validate as the setters use it, checked under Spec *)

\* the tuple that repeats the scalar value on every axis of grid g
Repeated(g, value) == [kind |-> "seq", v |-> [k \in 1..g.dimensions |-> value.v[1]]]

-----------------------------------------------------------------------------
(* Properties of memoized calls on a shared Cache, checked under SpecShared *)

\* the step is a memoized call on a receiver right after the same call, with
\* equal arguments, ran the operation on another receiver of the same cache
SecondReceiverCalls ==
    /\ last.op = "call"
    /\ last.invoked = 1
    /\ last'.op = "call"
    /\ last'.id = last.id
    /\ last'.other # last.other
    /\ last'.arg = last.arg

\* C26 (as claimed): the key of a memoized call is the operation and the
\* arguments without the receiver: the call on the second receiver returns the
\* value computed on the first and does not run the operation
C26_SecondReceiverHits ==
    [][SecondReceiverCalls => (last'.invoked = 0 /\ last'.result = last.result)]_vars

\* C26 (amended): the same, for a cache whose max_size is None or at least 1
C26_SecondReceiverHitsIfRoom ==
    [][(SecondReceiverCalls /\ cache[last.id].max_size # <<0>>) =>
          (last'.invoked = 0 /\ last'.result = last.result)]_vars

\* the second receiver got the value computed on the first, which is not the
\* value the operation has on the second
C26_Witness ==
    /\ last.op = "call"
    /\ last.other = "r2"
    /\ last.invoked = 0
    /\ last.result = FuncOf(World, "r1", Head(last.arg), Tail(last.arg))
    /\ last.result # FuncOf(World, "r2", Head(last.arg), Tail(last.arg))
-----------------------------------------------------------------------------
(* Properties of Cache.clear, checked under SpecCache *)

\* C27: after Cache.clear() the cache has no entry and its hit counter and
\* its miss counter are zero, whatever it held before; max_size is as before
C27_ClearResets ==
    [][last'.op = "clear" =>
          LET c == last'.id
          IN  /\ CacheLen(cache'[c]) = 0
              /\ cache'[c].cached = << >>
              /\ cache'[c].hits = 0
              /\ cache'[c].misses = 0
              /\ CacheHits(cache'[c]) = 0
              /\ CacheMisses(cache'[c]) = 0
              /\ cache'[c].max_size = cache[c].max_size]_vars

\* a bounded cache was cleared that held entries and had counted hits and misses
C27_Witness ==
    /\ last.op = "clear"
    /\ last.dropped # {}
    /\ last.old.hits > 0
    /\ last.old.misses > 0
    /\ cache[last.id].max_size = <<MaxSize>>
    /\ Fresh(cache[last.id])
-----------------------------------------------------------------------------
(* Properties of subdivide_into_batches, checked under SpecBatches *)

\* C28: for num_items >= num_batches >= 1 the call returns num_batches
\* positive integers that add up to num_items and differ from one another by at
\* most 1; with max_batch >= 1 given instead and num_items >= 1 it returns
\* ceil(num_items / max_batch) batches, none larger than max_batch
C28_BatchesAreBalanced ==
    batches.state = "returned" =>
        LET n == batches.num_items
            v == batches.result
        IN  /\ (/\ batches.num_batches # None
                /\ batches.max_batch = None
                /\ batches.num_batches[1] >= 1
                /\ n >= batches.num_batches[1]) =>
                  /\ batches.raised = NoError
                  /\ Len(v) = batches.num_batches[1]
                  /\ \A k \in 1..Len(v) : v[k] >= 1
                  /\ Sum(v) = n
                  /\ \A j, k \in 1..Len(v) : v[j] - v[k] <= 1
            /\ (/\ batches.num_batches = None
                /\ batches.max_batch # None
                /\ batches.max_batch[1] >= 1
                /\ n >= 1) =>
                  /\ batches.raised = NoError
                  /\ (Len(v) - 1) * batches.max_batch[1] < n
                  /\ n <= Len(v) * batches.max_batch[1]
                  /\ \A k \in 1..Len(v) : v[k] <= batches.max_batch[1]

\* seven items in three batches: 3, 2, 2
C28_Witness ==
    /\ batches.state = "returned"
    /\ batches.num_items = MaxItems
    /\ batches.num_batches = <<3>>
    /\ batches.result = <<3, 2, 2>>
-----------------------------------------------------------------------------
(* Properties of Grid.snap_to_power, checked under SpecSnap *)

\* x is a power of n
IsPower(n, x) == \E e \in 0..x : n ^ e = x

\* C30: after snap_to_power(n), n >= 2, has returned on a grid whose gpts were
\* defined and at least 1, every component of gpts is a power of n, and the
\* smallest power of n that is not below the component before the call
C30_SnapsUpToPower ==
    [][(/\ last'.op = "snap"
        /\ last'.raised = NoError
        /\ grid[last'.id].gpts # None
        /\ \A k \in 1..Len(grid[last'.id].gpts) : grid[last'.id].gpts[k] >= 1) =>
          LET n == last'.arg
              before == grid[last'.id].gpts
              after == grid'[last'.id].gpts
          IN  /\ Len(after) = Len(before)
              /\ \A k \in 1..Len(before) :
                    /\ IsPower(n, after[k])
                    /\ after[k] >= before[k]
                    /\ \A e \in 0..before[k] : n ^ e >= before[k] => after[k] <= n ^ e]_vars
-----------------------------------------------------------------------------
(* Properties of config.set, checked under SpecConfig *)

\* C29: the values set by `with set(mapping, config=c)` are temporary for
\* every c and mapping: when the with-block exits, __exit__ raises nothing and
\* c is what it was before the set object was constructed, also for
\* with-blocks inside one another; and when the constructor raises, so that
\* there is no with-block, c is what it was before the statement
C29_SetIsTemporary ==
    [][/\ last'.op = "exit" => (last'.raised = NoError /\ config' = last'.old)
       /\ (last'.op = "enter" /\ last'.raised # NoError) => config' = config]_vars

-----------------------------------------------------------------------------
(* Properties of the three setters taken together, checked under Spec *)

\* C31: after a successful assignment of a value v to extent, gpts or
\* sampling, the same descriptor reads v, broadcast to a tuple of length
\* dimensions; also for sampling on a grid whose extent and gpts are undefined
C31_AssignedValueIsRead ==
    [][(Assigned' /\ Given(last'.arg))
          => Descriptor(grid'[last'.id], last'.op) = Requested']_vars

\* C32: on a grid whose sampling is locked and defined, a successful
\* assignment of extent e sets gpts to ceil(e / sampling) on every axis, plus 1
\* with the endpoint, and a successful assignment of gpts n sets extent to
\* n * sampling, (n - 1) * sampling with the endpoint; sampling is the value
\* before the assignment
C32_LockedSamplingRederives ==
    [][(/\ Assigned' /\ Given(last'.arg)
        /\ grid[last'.id].lock_sampling /\ grid[last'.id].sampling # None) =>
          LET g == grid[last'.id]
              h == grid'[last'.id]
              d == g.sampling
              e == B2N(g.endpoint)
          IN  /\ last'.op = "extent" =>
                    h.gpts = [k \in 1..g.dimensions |-> Ceil(Divide(Requested'[k], d[k])) + e]
              /\ last'.op = "gpts" =>
                    h.extent = [k \in 1..g.dimensions |-> IntTimes(Requested'[k] - e, d[k])]]_vars

\* C32 witness: extent was assigned 1/2 on a grid with the endpoint and a
\* locked sampling, and gpts became ceil of the quotient plus 1, that is 2
C32_Witness ==
    /\ Assigned /\ last.op = "extent"
    /\ last.arg = [kind |-> "scalar", v |-> <<Rat(1, 2)>>]
    /\ grid[last.id].lock_sampling /\ grid[last.id].endpoint
    /\ grid[last.id].gpts = [k \in 1..grid[last.id].dimensions |-> 2]

\* C33: on a grid whose sampling is not locked and whose extent and gpts are
\* both defined, a successful assignment of extent leaves gpts unchanged, a
\* successful assignment of gpts leaves extent unchanged, and in both cases
\* sampling becomes extent / gpts, extent / (gpts - 1) with the endpoint
C33_OnlySamplingIsRederived ==
    [][(/\ Assigned' /\ Given(last'.arg) /\ last'.op \in {"extent", "gpts"}
        /\ ~grid[last'.id].lock_sampling
        /\ grid[last'.id].extent # None /\ grid[last'.id].gpts # None) =>
          LET g == grid[last'.id]
              h == grid'[last'.id]
              e == B2N(g.endpoint)
          IN  /\ last'.op = "extent" => h.gpts = g.gpts
              /\ last'.op = "gpts" => h.extent = g.extent
              /\ h.sampling = [k \in 1..g.dimensions |->
                                  Divide(h.extent[k], FromInt(h.gpts[k] - e))]]_vars

\* C33 witness: the first assignment after construction set a defined,
\* non-zero extent to 2 on a grid without locked sampling whose gpts are 2 and
\* whose sampling is now 1.  (With one notification since construction, gpts
\* were defined before the call: an assignment that raised can only have
\* derived them from a zero extent.)
C33_Witness ==
    /\ Assigned /\ last.op = "extent"
    /\ changed[last.id].notify_count = 1
    /\ last.old # None /\ \A k \in 1..Len(last.old) : ~IsZero(last.old[k])
    /\ last.arg = [kind |-> "scalar", v |-> <<FromInt(2)>>]
    /\ ~grid[last.id].lock_sampling /\ ~grid[last.id].endpoint
    /\ grid[last.id].gpts = [k \in 1..grid[last.id].dimensions |-> 2]
    /\ grid[last.id].sampling = [k \in 1..grid[last.id].dimensions |-> FromInt(1)]

\* C34: every constructor call and every assignment that returns leaves a
\* grid on which every component of a defined gpts is an integer that is at
\* least 1
C34_GptsAreAtLeastOne ==
    [][(last'.op \in AssignOps \cup {"init"} /\ last'.raised = NoError) =>
          LET n == grid'[last'.id].gpts
          IN  n # None => \A k \in 1..Len(n) : n[k] \in Nat /\ n[k] >= 1]_vars

-----------------------------------------------------------------------------
(* Memoized calls against the operation behind them, checked under SpecPure *)

\* C35: when the operation behind a memoized method is pure in its arguments,
\* every memoized call on the receiver returns what the operation itself
\* returns for these arguments, for every bound of the cache (None, 0, 1, 2)
\* and between clears and evictions; and the operation is run by the call
\* exactly when the key is not in the cache when the call is made
C35_MemoizedEqualsUnmemoized ==
    [][last'.op = "call" =>
          LET key == last'.arg
          IN  /\ last'.raised = NoError
              /\ last'.result = Func(World, Head(key), Tail(key))
              /\ last'.invoked = IF Contains(cache[last'.id], key) THEN 0 ELSE 1]_vars

\* C35 witness: on a cache of max_size 1, a third call has run the operation
\* again for a key that an earlier call had computed and a later one evicted,
\* and a call before had been served from the cache
C35_Witness ==
    /\ last.op = "call" /\ last.invoked = 1
    /\ cache["c1"].max_size = <<1>>
    /\ cache["c1"].misses = 3
    /\ cache["c1"].hits = 1
    /\ tally["c1"].computed = 3

-----------------------------------------------------------------------------
(* Notification of every change of a Grid, checked under SpecNotify *)

Descriptors(g) == <<g.extent, g.gpts, g.sampling>>

\* C36: after construction, every operation that returns and has changed the
\* extent, gpts or sampling of a grid, as the value assigned, as a descriptor
\* derived on the way, or as either grid of a match, has notified the changed
\* event of that same grid at least once
C36_NoSilentChange ==
    [][\A i \in GridIds :
          (/\ last'.raised = NoError
           /\ ~(last'.op = "init" /\ last'.id = i)
           /\ Descriptors(grid'[i]) # Descriptors(grid[i]))
             => changed'[i].notify_count > changed[i].notify_count]_vars

\* C36 witness: A.match(B) has returned, B has adopted an extent it did not
\* have, and B's event was notified while A's was not
C36_Witness ==
    /\ last.op = "match" /\ last.raised = NoError
    /\ last.old.other.extent = None /\ grid["B"].extent # None
    /\ changed["B"].notify_count >= 1
    /\ changed["A"].notify_count = 0

-----------------------------------------------------------------------------
(* Failure of Grid.match, checked under SpecMatch *)

\* C37: whenever A.match(B) raises, extent, gpts and sampling of A and of B
\* are what they were before the call, and neither grid's changed event has
\* been notified
C37_MatchIsAtomicOnFailure ==
    [][(last'.op = "match" /\ last'.raised # NoError) =>
          \A i \in {last'.id, last'.other} :
              /\ Descriptors(grid'[i]) = Descriptors(grid[i])
              /\ changed'[i].notify_count = changed[i].notify_count]_vars

-----------------------------------------------------------------------------
(* A callback that reads a memoized result, checked under SpecReader *)

\* C38: during the notification of an assignment on the receiver's grid, with
\* the callback of the receiver's cache registered on the event, no callback
\* that calls the memoized method is served a value that was in the cache
\* before the assignment, wherever it stands in the list of callbacks
C38_ReaderSeesNoStaleValue ==
    [][(/\ last'.op \in AssignOps /\ last'.raised = NoError
        /\ Registered(changed[last'.id], "c1")
        /\ Contains(cache["c1"], ReaderKey)) =>
          \A k \in 1..Len(last'.result) :
              ~(last'.result[k].hit /\ ~last'.result[k].cleared)]_vars

-----------------------------------------------------------------------------
(* Accelerator.match of equal energies, checked under SpecAccel *)

\* C39: for two accelerators whose energies are defined and equal, A.match(B)
\* returns without raising under every lock of A and of B, leaves both
\* energies as they were, and notifies the changed event of neither
C39_EqualEnergiesMatchSilently ==
    [][(/\ last'.op = "match" /\ last'.id \in AccelIds
        /\ accel[last'.id].energy # None
        /\ accel[last'.id].energy = accel[last'.other].energy) =>
          /\ last'.raised = NoError
          /\ \A i \in {last'.id, last'.other} :
                /\ accel'[i].energy = accel[i].energy
                /\ changed'[i].notify_count = changed[i].notify_count]_vars

-----------------------------------------------------------------------------
(* The relation between the three descriptors, checked under SpecNotify *)

\* extent and sampling positive, gpts at least 1, at least 2 with the endpoint
Positive(g) ==
    \A k \in 1..g.dimensions :
        /\ g.extent[k][1] > 0
        /\ g.sampling[k][1] > 0
        /\ g.gpts[k] >= (IF g.endpoint THEN 2 ELSE 1)

\* C40: in every state of a grid in which extent, gpts and sampling are all
\* defined and positive (gpts at least 2 with the endpoint), extent is
\* gpts * sampling on every axis, (gpts - 1) * sampling with the endpoint,
\* whatever constructor calls, assignments and matches, under whatever lock,
\* have led there
C40_DefinedDescriptorsAreRelated ==
    \A i \in GridIds :
        (grid[i].alive /\ Defined3(grid[i]) /\ Positive(grid[i])) => Related(grid[i])

\* C40 witness: on a grid with the endpoint and extent 1, sampling was
\* assigned 2; gpts became 2 and sampling 1, so that extent = (gpts - 1) *
\* sampling
C40_Witness ==
    /\ Assigned /\ last.op = "sampling" /\ Requested = <<FromInt(2)>>
    /\ grid[last.id].endpoint
    /\ grid[last.id].extent = <<FromInt(1)>>
    /\ grid[last.id].gpts = <<2>>
    /\ grid[last.id].sampling = <<FromInt(1)>>
    /\ Positive(grid[last.id]) /\ Related(grid[last.id])

====
